---- MODULE Spec2Model ----
(***************************************************************************)
(* A state-machine model of the LoRa discrete-event simulator              *)
(* (VERSION_4/launcher/simulator.py) and of its network server             *)
(* (VERSION_4/launcher/server.py).                                         *)
(*                                                                         *)
(* Time is counted in whole seconds, powers in whole dB(m), energies in    *)
(* whole millijoules.  Node, Gateway, Channel, DutyCycleManager and the    *)
(* DownlinkScheduler are collaborators whose source is not part of the     *)
(* files modelled here; they are modelled from their documented contract.  *)
(***************************************************************************)
EXTENDS Integers, Sequences, FiniteSets, TLC

VARIABLES
    cfg,                     \* constructor arguments of Simulator, fixed over a run
    event_queue,             \* Simulator.event_queue, kept in insertion order
    current_time,            \* Simulator.current_time
    event_id_counter,        \* Simulator.event_id_counter
    packets_sent,            \* Simulator.packets_sent
    packets_delivered,       \* Simulator.packets_delivered
    packets_lost_collision,  \* Simulator.packets_lost_collision
    packets_lost_no_signal,  \* Simulator.packets_lost_no_signal
    retransmissions,         \* Simulator.retransmissions
    events_log,              \* Simulator.events_log
    running,                 \* Simulator.running
    nodes,                   \* Simulator.nodes, by node id
    gateways,                \* Simulator.gateways, by gateway id
    server,                  \* Simulator.network_server
    duty,                    \* Simulator.duty_cycle_manager: earliest legal start per node
    dispatched,              \* history: the events popped by step(), in order
    runner,                  \* the call of Simulator.run in progress, if any
    call                     \* the last call made on a component on its own

vars == <<cfg, event_queue, current_time, event_id_counter, packets_sent,
          packets_delivered, packets_lost_collision, packets_lost_no_signal,
          retransmissions, events_log, running, nodes, gateways, server, duty,
          dispatched, runner, call>>

----------------------------------------------------------------------------
(* Bounds of the model *)

\* step() is not taken once this many events have been popped
MaxSteps == 13

\* the same, in the runs of the server ADR scenario (20 uplinks of each node)
MaxAdrSteps == 380

\* the largest max_steps given to run()
MaxRunLimit == 3
\* the number of events the model follows of a run with a packet budget
MaxBudgetSteps == 40
MaxNodeAdrSteps == 60
\* the longest list of RSSIs given to OmnetPHY.capture
MaxRssiList == 3
\* the largest |nstep| given to the server ADR step
MaxNstep == 13
\* the number of uplinks reported to the server on its own
MaxReceives == 42
\* the number of downlinks sent to the server on its own
MaxUnitFrames == 3

\* the node ids and the largest set of gateway ids of a run
Nodes == {1, 2}
AllGateways == {1, 2}

----------------------------------------------------------------------------
(* Program constants *)

\* Python's None, for optional integers
None == -1000

\* class EventType(IntEnum)
TX_END == 0
TX_START == 1
MOBILITY == 2
RX_WINDOW == 3

\* history lengths (simulator.py: len(node.history) > 20; server.py: len(node.snr_history) > 20)
HISTORY_LEN == 20
SNR_HISTORY_LEN == 20

\* Simulator.MARGIN_DB and server.MARGIN_DB
MARGIN_DB == 15

----------------------------------------------------------------------------
(* Small helpers *)

Max2(a, b) == IF a >= b THEN a ELSE b

SetMax(S) == CHOOSE x \in S : \A y \in S : y <= x

Range(s) == {s[i] : i \in DOMAIN s}

\* s without its i-th element
RemoveAt(s, i) == [k \in 1..(Len(s) - 1) |-> IF k < i THEN s[k] ELSE s[k + 1]]

----------------------------------------------------------------------------
(* Event and the heap order *)

\* Event(time, type, id, node_id)
Event(time, type, id, node_id) ==
    [time |-> time, type |-> type, id |-> id, node_id |-> node_id]

\* a variant of the order that leaves the type out: (time, id, node_id)
EventLess_NoType(a, b) ==
    \/ a.time < b.time
    \/ a.time = b.time /\ a.id < b.id
    \/ a.time = b.time /\ a.id = b.id /\ a.node_id < b.node_id

\* a variant of the order that leaves the id out: (time, type, node_id)
EventLess_NoId(a, b) ==
    \/ a.time < b.time
    \/ a.time = b.time /\ a.type < b.type
    \/ a.time = b.time /\ a.type = b.type /\ a.node_id < b.node_id

\* @dataclass(order=True): events compare as the tuples (time, type, id, node_id)
EventLess(a, b) ==
    \/ a.time < b.time
    \/ a.time = b.time /\ a.type < b.type
    \/ a.time = b.time /\ a.type = b.type /\ a.id < b.id
    \/ a.time = b.time /\ a.type = b.type /\ a.id = b.id /\ a.node_id < b.node_id

\* a variant of the pop that takes the last pushed event (list.pop())
HeapTop_Lifo(q) == Len(q)

\* heapq.heappop: the position of a least element of the queue
HeapTop(q) ==
    CHOOSE i \in DOMAIN q :
        /\ \A j \in DOMAIN q : ~EventLess(q[j], q[i])
        /\ \A j \in DOMAIN q : (j < i) => EventLess(q[i], q[j])

\* heapq.heappush
HeapPush(q, ev) == Append(q, ev)

----------------------------------------------------------------------------
(* Channel (collaborator): airtime, path loss, RSSI/SNR, sensitivity *)

\* Channel.airtime(sf, payload_size): grows with the spreading factor
Airtime(sf) == sf - 6

\* Channel.path_loss(distance): 0 for d <= 0, log-distance growth otherwise
PathLoss(d) == IF d <= 0 THEN 0 ELSE 100 + 4 * d

\* Channel.noise_floor_dBm()
NoiseFloor == 0 - 117

\* Channel.sensitivity_dBm[sf]
Sensitivity(sf) == 0 - (102 + 3 * sf)

\* Channel.capture_threshold_dB
CaptureThreshold == 6

\* Channel.frequency_hz of the single default channel
FrequencyHz == 868100000

\* Channel.compute_rssi(tx_power, distance) -> (rssi, snr), without fading
ComputeRssi(tx_power, distance) ==
    LET rssi == tx_power - PathLoss(distance)
    IN  [rssi |-> rssi, snr |-> rssi - NoiseFloor]

\* node.channel.sensitivity_dBm.get(sf) - node.channel.noise_floor_dBm()
SnrThreshold(sf) == Sensitivity(sf) - NoiseFloor

Abs(x) == IF x < 0 THEN 0 - x ELSE x

\* Gateway placement: gateway g sits at x = 10 * (g - 1)
GatewayX(g) == 10 * (g - 1)

\* node.distance_to(gw)
DistanceTo(node, g) == Abs(node.x - GatewayX(g))

----------------------------------------------------------------------------
(* Node (collaborator): battery and energy *)

\* node.profile: rx energy of one window (rx_current_a * voltage_v *
\* rx_window_duration) and the window's duration
Profile == [rx_window_energy |-> 3, rx_window_duration |-> 0]

\* power drawn in a state, per second, charged by consume_until
StatePower(state) == 1

\* 10 ** (tx_power / 10) mW times duration: the energy of one transmission
TxEnergy(tx_power, duration) ==
    LET p_mW == IF tx_power >= 20 THEN 100
                ELSE IF tx_power >= 17 THEN 50
                ELSE IF tx_power >= 14 THEN 25
                ELSE IF tx_power >= 11 THEN 13
                ELSE IF tx_power >= 8 THEN 6
                ELSE IF tx_power >= 5 THEN 3
                ELSE 2
    IN  p_mW * duration

\* Node.add_energy(energy, state): deduct from the battery, alive = False at zero
AddEnergy(node, energy) ==
    LET n1 == [node EXCEPT !.energy_consumed = @ + energy]
    IN  IF node.battery_remaining_j = None THEN n1
        ELSE IF node.battery_remaining_j - energy <= 0
             THEN [n1 EXCEPT !.battery_remaining_j = 0, !.alive = FALSE]
             ELSE [n1 EXCEPT !.battery_remaining_j = @ - energy]

\* Node.consume_until(t): charge the time spent in the current state
ConsumeUntil(node, t) ==
    LET dt == t - node.last_state_time
    IN  IF dt <= 0 \/ ~node.alive THEN node
        ELSE AddEnergy([node EXCEPT !.last_state_time = t],
                       dt * StatePower(node.state))

\* Node.schedule_receive_windows(end_time) -> (rx1, rx2)
ScheduleReceiveWindows(node, end_time) ==
    [rx1 |-> end_time + node.rx_delay, rx2 |-> end_time + node.rx_delay + 1]

----------------------------------------------------------------------------
(* lorawan (collaborator): data-rate and TX power tables *)

\* lorawan.SF_TO_DR.get(sf, 5)
SfToDr(sf) == IF sf \in 7..12 THEN 12 - sf ELSE 5

\* lorawan.TX_POWER_INDEX_TO_DBM: index 0 is the maximum, 2 dB less per index
P_MAX_IDX == 7
TxPowerIndexToDbm(i) == 20 - 2 * i

\* lorawan.DBM_TO_TX_POWER_INDEX.get(int(power), 0)
DbmToTxPowerIndex(power) ==
    IF \E i \in 0..P_MAX_IDX : TxPowerIndexToDbm(i) = power
    THEN CHOOSE i \in 0..P_MAX_IDX : TxPowerIndexToDbm(i) = power
    ELSE 0

\* Node.handle_downlink(frame): one pending downlink less; a LinkADRReq sets
\* the data rate, the power, the channel mask and nb_trans
HandleDownlink(node, frame) ==
    LET n1 == [node EXCEPT !.downlink_pending = IF @ > 0 THEN @ - 1 ELSE 0]
    IN  IF frame.kind = "adr"
        THEN [n1 EXCEPT !.sf = 12 - frame.dr,
                        !.tx_power = TxPowerIndexToDbm(frame.p_idx),
                        !.chmask = frame.chmask,
                        !.nb_trans = frame.nb_trans]
        ELSE n1

----------------------------------------------------------------------------
(* Gateway (collaborator): in-flight receptions and downlink buffers *)

NewGateway(g) ==
    [id |-> g, x |-> GatewayX(g), active |-> <<>>,
     downlink_buffer |-> [n \in Nodes |-> <<>>]]

\* Gateway.start_reception: append the reception; when it overlaps receptions
\* on the same (frequency, sf), the strongest survives iff it leads the
\* second strongest by the capture threshold, every other one is lost
StartReception(gw, event_id, node_id, sf, rssi, end_time, capture_threshold, now, freq) ==
    LET new == [event_id |-> event_id, node_id |-> node_id, sf |-> sf,
                frequency |-> freq, rssi |-> rssi, end_time |-> end_time,
                lost_flag |-> FALSE]
        all == Append(gw.active, new)
        C == {i \in DOMAIN all : /\ all[i].sf = sf
                                  /\ all[i].frequency = freq
                                  /\ all[i].end_time > now}
        top == CHOOSE i \in C :
                   \A j \in C : \/ all[j].rssi < all[i].rssi
                                \/ all[j].rssi = all[i].rssi /\ i <= j
        second == SetMax({all[j].rssi : j \in C \ {top}})
        capture == all[top].rssi - second >= capture_threshold
    IN  IF Cardinality(C) <= 1 THEN [gw EXCEPT !.active = all]
        ELSE [gw EXCEPT !.active =
                 [i \in DOMAIN all |->
                     IF i \in C /\ ~(capture /\ i = top)
                     THEN [all[i] EXCEPT !.lost_flag = TRUE]
                     ELSE all[i]]]

\* the in-flight records of a gateway for an event id
ActiveOf(gw, event_id) == {i \in DOMAIN gw.active : gw.active[i].event_id = event_id}

\* Gateway.buffer_downlink(node_id, frame)
BufferDownlink(gw, node_id, frame) ==
    [gw EXCEPT !.downlink_buffer[node_id] = Append(@, frame)]

\* Gateway.pop_downlink(node_id): the buffer without its head
PopDownlink(gw, node_id) ==
    [gw EXCEPT !.downlink_buffer[node_id] = Tail(@)]

----------------------------------------------------------------------------
(* The world: every field a handler may change, threaded through its calls *)

World ==
    [event_queue |-> event_queue, current_time |-> current_time,
     event_id_counter |-> event_id_counter, packets_sent |-> packets_sent,
     packets_delivered |-> packets_delivered,
     packets_lost_collision |-> packets_lost_collision,
     packets_lost_no_signal |-> packets_lost_no_signal,
     retransmissions |-> retransmissions, events_log |-> events_log,
     nodes |-> nodes, gateways |-> gateways, server |-> server, duty |-> duty]

Commit(w) ==
    /\ event_queue' = w.event_queue
    /\ current_time' = w.current_time
    /\ event_id_counter' = w.event_id_counter
    /\ packets_sent' = w.packets_sent
    /\ packets_delivered' = w.packets_delivered
    /\ packets_lost_collision' = w.packets_lost_collision
    /\ packets_lost_no_signal' = w.packets_lost_no_signal
    /\ retransmissions' = w.retransmissions
    /\ events_log' = w.events_log
    /\ nodes' = w.nodes
    /\ gateways' = w.gateways
    /\ server' = w.server
    /\ duty' = w.duty

----------------------------------------------------------------------------
(* NetworkServer *)

\* NetworkServer.__init__
NewServer(adr_enabled) ==
    [received_events |-> {}, event_gateway |-> <<>>, packets_received |-> 0,
     adr_enabled |-> adr_enabled, join_server |-> FALSE, simulator |-> FALSE,
     scheduler |-> [n \in Nodes |-> <<>>], scheduler_seq |-> 0,
     last_beacon_time |-> None]

\* NetworkServer.beacon_interval, ping_slot_interval, ping_slot_offset
BEACON_INTERVAL == 128
PING_SLOT_INTERVAL == 1
PING_SLOT_OFFSET == 2

\* no adr_command
NoAdr == [sf |-> None, power |-> None, chmask |-> None, nb_trans |-> None]

\* the frame send_downlink builds: a data frame, a LinkADRReq or a Join-Accept
BuildFrame(node, kind, adr) ==
    IF adr # NoAdr /\ kind = "data"
    THEN [kind |-> "adr", fcnt |-> node.fcnt_down, dr |-> SfToDr(adr.sf),
          p_idx |-> DbmToTxPowerIndex(adr.power), chmask |-> adr.chmask,
          nb_trans |-> adr.nb_trans]
    ELSE [kind |-> kind, fcnt |-> node.fcnt_down, dr |-> None, p_idx |-> None,
          chmask |-> None, nb_trans |-> None]

\* DownlinkScheduler.schedule(node_id, time, frame, gateway)
SchedulerSchedule(srv, node_id, time, frame, gw) ==
    [srv EXCEPT !.scheduler[node_id] =
                    Append(@, [time |-> time, seq |-> srv.scheduler_seq,
                               frame |-> frame, gw |-> gw]),
                !.scheduler_seq = @ + 1]

\* Node.next_ping_slot_time: the first slot last_beacon + offset + k * interval >= after
NextPingSlotTime(last_beacon, after, ping_interval, ping_offset) ==
    LET first == (IF last_beacon = None THEN 0 ELSE last_beacon) + ping_offset
    IN  IF after <= first THEN first
        ELSE first + ((after - first + ping_interval - 1) \div ping_interval) * ping_interval

\* a variant of send_downlink that buffers at once a class B frame sent
\* without at_time
SendDownlink_BuffersClassB(w, node_id, kind, adr, at_time, gateway) ==
    LET gw == IF gateway # None THEN gateway
              ELSE IF 1 \in DOMAIN w.gateways THEN 1 ELSE None
        node == w.nodes[node_id]
        frame == BuildFrame(node, kind, adr)
        w1 == [w EXCEPT !.nodes[node_id].fcnt_down = @ + 1]
        after == IF w.server.simulator THEN w.current_time ELSE 0
        w2 == IF node.class_type = "B" /\ at_time # None
              THEN [w1 EXCEPT !.server =
                       SchedulerSchedule(@, node_id,
                           NextPingSlotTime(node.last_beacon_time,
                               IF at_time = None THEN after ELSE at_time,
                               PING_SLOT_INTERVAL, PING_SLOT_OFFSET),
                           frame, gw)]
              ELSE IF at_time = None
              THEN [w1 EXCEPT !.gateways[gw] = BufferDownlink(@, node_id, frame)]
              ELSE IF node.class_type = "C"
              THEN LET w1c == [w1 EXCEPT !.server =
                                  SchedulerSchedule(@, node_id, at_time, frame, gw)]
                   IN  IF w.server.simulator
                       THEN [w1c EXCEPT !.event_id_counter = @ + 1,
                                        !.event_queue =
                                            HeapPush(@, Event(at_time, RX_WINDOW,
                                                w.event_id_counter, node_id))]
                       ELSE w1c
              ELSE [w1 EXCEPT !.server =
                       SchedulerSchedule(@, node_id, at_time, frame, gw)]
    IN  IF gw = None THEN w
        ELSE [w2 EXCEPT !.nodes[node_id].downlink_pending = @ + 1]

\* a variant of send_downlink that counts only the frames sent without at_time
SendDownlink_CountsUnscheduled(w, node_id, kind, adr, at_time, gateway) ==
    LET gw == IF gateway # None THEN gateway
              ELSE IF 1 \in DOMAIN w.gateways THEN 1 ELSE None
        node == w.nodes[node_id]
        frame == BuildFrame(node, kind, adr)
        w1 == [w EXCEPT !.nodes[node_id].fcnt_down = IF at_time = None THEN @ + 1 ELSE @]
        after == IF w.server.simulator THEN w.current_time ELSE 0
        w2 == IF node.class_type = "B"
              THEN [w1 EXCEPT !.server =
                       SchedulerSchedule(@, node_id,
                           NextPingSlotTime(node.last_beacon_time,
                               IF at_time = None THEN after ELSE at_time,
                               PING_SLOT_INTERVAL, PING_SLOT_OFFSET),
                           frame, gw)]
              ELSE IF at_time = None
              THEN [w1 EXCEPT !.gateways[gw] = BufferDownlink(@, node_id, frame)]
              ELSE IF node.class_type = "C"
              THEN LET w1c == [w1 EXCEPT !.server =
                                  SchedulerSchedule(@, node_id, at_time, frame, gw)]
                   IN  IF w.server.simulator
                       THEN [w1c EXCEPT !.event_id_counter = @ + 1,
                                        !.event_queue =
                                            HeapPush(@, Event(at_time, RX_WINDOW,
                                                w.event_id_counter, node_id))]
                       ELSE w1c
              ELSE [w1 EXCEPT !.server =
                       SchedulerSchedule(@, node_id, at_time, frame, gw)]
    IN  IF gw = None THEN w
        ELSE [w2 EXCEPT !.nodes[node_id].downlink_pending = @ + 1]

\* NetworkServer.send_downlink(node, payload, adr_command=, at_time=, gateway=)
SendDownlink(w, node_id, kind, adr, at_time, gateway) ==
    LET gw == IF gateway # None THEN gateway
              ELSE IF 1 \in DOMAIN w.gateways THEN 1 ELSE None
        node == w.nodes[node_id]
        frame == BuildFrame(node, kind, adr)
        w1 == [w EXCEPT !.nodes[node_id].fcnt_down = @ + 1]
        after == IF w.server.simulator THEN w.current_time ELSE 0
        w2 == IF node.class_type = "B"
              THEN [w1 EXCEPT !.server =
                       SchedulerSchedule(@, node_id,
                           NextPingSlotTime(node.last_beacon_time,
                               IF at_time = None THEN after ELSE at_time,
                               PING_SLOT_INTERVAL, PING_SLOT_OFFSET),
                           frame, gw)]
              ELSE IF at_time = None
              THEN [w1 EXCEPT !.gateways[gw] = BufferDownlink(@, node_id, frame)]
              ELSE IF node.class_type = "C"
              THEN LET w1c == [w1 EXCEPT !.server =
                                  SchedulerSchedule(@, node_id, at_time, frame, gw)]
                   IN  IF w.server.simulator
                       THEN [w1c EXCEPT !.event_id_counter = @ + 1,
                                        !.event_queue =
                                            HeapPush(@, Event(at_time, RX_WINDOW,
                                                w.event_id_counter, node_id))]
                       ELSE w1c
              ELSE [w1 EXCEPT !.server =
                       SchedulerSchedule(@, node_id, at_time, frame, gw)]
    IN  IF gw = None THEN w
        ELSE [w2 EXCEPT !.nodes[node_id].downlink_pending = @ + 1]

\* tolerance = 0.1 of deliver_scheduled, in tenths of a second
TOLERANCE_TENTHS == 1

\* the entry of a scheduler queue that its heap order (time, seq) puts first
SchedulerHead(q) ==
    CHOOSE i \in DOMAIN q :
        \A j \in DOMAIN q :
            q[i].time < q[j].time \/ (q[i].time = q[j].time /\ q[i].seq <= q[j].seq)

\* DownlinkScheduler.next_time(node_id)
NextTime(srv, node_id) ==
    LET q == srv.scheduler[node_id]
    IN  IF q = <<>> THEN None ELSE q[SchedulerHead(q)].time

\* DownlinkScheduler.pop_ready(node_id, now) is possible
HasReady(srv, node_id, now) ==
    NextTime(srv, node_id) # None /\ NextTime(srv, node_id) <= now

\* DownlinkScheduler.pop_ready(node_id, now) followed by gw.buffer_downlink
PopReadyToGateway(w, node_id, now) ==
    LET q == w.server.scheduler[node_id]
        h == SchedulerHead(q)
    IN  [w EXCEPT !.server.scheduler[node_id] =
                      SubSeq(q, 1, h - 1) \o SubSeq(q, h + 1, Len(q)),
                  !.gateways[q[h].gw] = BufferDownlink(@, node_id, q[h].frame)]

\* the while loop of deliver_scheduled
RECURSIVE DrainReady(_, _, _)
DrainReady(w, node_id, now) ==
    IF HasReady(w.server, node_id, now)
    THEN DrainReady(PopReadyToGateway(w, node_id, now), node_id, now)
    ELSE w

\* the head overdue by more than the tolerance is popped at its own time
DrainOverdue(w, node_id, now) ==
    LET nxt == NextTime(w.server, node_id)
    IN  IF nxt # None /\ 10 * nxt < 10 * now - TOLERANCE_TENTHS
        THEN PopReadyToGateway(w, node_id, nxt)
        ELSE w

\* a variant of deliver_scheduled with an if in the place of the while
DeliverScheduled_OneFrame(w, node_id, now) ==
    LET w1 == DrainOverdue(w, node_id, now)
    IN  IF HasReady(w1.server, node_id, now)
        THEN PopReadyToGateway(w1, node_id, now)
        ELSE w1

\* NetworkServer.deliver_scheduled(node_id, now)
DeliverScheduled(w, node_id, now) ==
    DrainReady(DrainOverdue(w, node_id, now), node_id, now)

----------------------------------------------------------------------------
(* OmnetPHY *)

\* sorted(range(len(rssi_list)), key=..., reverse=True): the indices by
\* decreasing RSSI, equal RSSIs in their order in the list (the sort is stable)
RECURSIVE RssiOrder(_, _)
RssiOrder(rssi_list, left) ==
    IF left = {} THEN <<>>
    ELSE LET i == CHOOSE k \in left :
                      \A j \in left :
                          rssi_list[k] > rssi_list[j]
                              \/ (rssi_list[k] = rssi_list[j] /\ k <= j)
         IN  <<i>> \o RssiOrder(rssi_list, left \ {i})

\* a variant of capture that wants the lead to exceed the threshold
Capture_Strict(rssi_list, capture_threshold_dB) ==
    LET order == RssiOrder(rssi_list, DOMAIN rssi_list)
    IN  IF rssi_list = <<>> THEN <<>>
        ELSE IF Len(order) = 1 THEN <<TRUE>>
        ELSE [i \in DOMAIN rssi_list |->
                 i = order[1]
                     /\ rssi_list[order[1]] - rssi_list[order[2]] > capture_threshold_dB]

\* OmnetPHY.capture(rssi_list), with self.channel.capture_threshold_dB
Capture(rssi_list, capture_threshold_dB) ==
    LET order == RssiOrder(rssi_list, DOMAIN rssi_list)
    IN  IF rssi_list = <<>> THEN <<>>
        ELSE IF Len(order) = 1 THEN <<TRUE>>
        ELSE [i \in DOMAIN rssi_list |->
                 i = order[1]
                     /\ rssi_list[order[1]] - rssi_list[order[2]] >= capture_threshold_dB]

----------------------------------------------------------------------------
\* server.REQUIRED_SNR, in half dB: {7: -7.5, 8: -10, 9: -12.5, 10: -15, 11: -17.5, 12: -20}
RequiredSnr2(sf, default2) == IF sf \in 7..12 THEN 0 - (15 + 5 * (sf - 7)) ELSE default2

\* Python's round(a / d) for d > 0: to the nearest integer, a tie to the even one
RoundHalfEven(a, d) ==
    LET q == a \div d
        r == a % d
    IN  IF 2 * r < d THEN q
        ELSE IF 2 * r > d THEN q + 1
        ELSE IF q % 2 = 0 THEN q ELSE q + 1

\* a variant of the ADR loops that, for nstep > 0, raises p_idx before it
\* lowers sf
RECURSIVE AdrLoop_PowerFirst(_, _, _, _)
AdrLoop_PowerFirst(sf, p_idx, power, nstep) ==
    IF nstep > 0 /\ (sf > 7 \/ p_idx < P_MAX_IDX)
    THEN IF p_idx < P_MAX_IDX
         THEN AdrLoop_PowerFirst(sf, p_idx + 1, TxPowerIndexToDbm(p_idx + 1), nstep - 1)
         ELSE AdrLoop_PowerFirst(sf - 1, p_idx, power, nstep - 1)
    ELSE IF nstep < 0 /\ (p_idx > 0 \/ sf < 12)
    THEN IF p_idx > 0
         THEN AdrLoop_PowerFirst(sf, p_idx - 1, TxPowerIndexToDbm(p_idx - 1), nstep + 1)
         ELSE AdrLoop_PowerFirst(sf + 1, p_idx, power, nstep + 1)
    ELSE [sf |-> sf, p_idx |-> p_idx, power |-> power]

\* the two while loops of the server ADR step
RECURSIVE AdrLoop(_, _, _, _)
AdrLoop(sf, p_idx, power, nstep) ==
    IF nstep > 0 /\ (sf > 7 \/ p_idx < P_MAX_IDX)
    THEN IF sf > 7 THEN AdrLoop(sf - 1, p_idx, power, nstep - 1)
         ELSE AdrLoop(sf, p_idx + 1, TxPowerIndexToDbm(p_idx + 1), nstep - 1)
    ELSE IF nstep < 0 /\ (p_idx > 0 \/ sf < 12)
    THEN IF p_idx > 0
         THEN AdrLoop(sf, p_idx - 1, TxPowerIndexToDbm(p_idx - 1), nstep + 1)
         ELSE AdrLoop(sf + 1, p_idx, power, nstep + 1)
    ELSE [sf |-> sf, p_idx |-> p_idx, power |-> power]

\* a variant of the server-side ADR block that empties the history whenever
\* it is full, whether or not a LinkADRReq is sent
ServerAdr_AlwaysClears(w, node_id, rssi) ==
    LET snr == rssi - NoiseFloor
        h0 == Append(w.nodes[node_id].snr_history, snr)
        h1 == IF Len(h0) > SNR_HISTORY_LEN THEN Tail(h0) ELSE h0
        w1 == [w EXCEPT !.nodes[node_id].snr_history = h1]
        node == w1.nodes[node_id]
        max_snr == SetMax(Range(h1))
        margin2 == 2 * max_snr - RequiredSnr2(node.sf, 0 - 40) - 2 * MARGIN_DB
        nstep == RoundHalfEven(margin2, 6)
        r == AdrLoop(node.sf, DbmToTxPowerIndex(node.tx_power), node.tx_power, nstep)
    IN  IF Len(h1) >= SNR_HISTORY_LEN /\ (r.sf # node.sf \/ r.power # node.tx_power)
        THEN [SendDownlink(w1, node_id, "data",
                           [sf |-> r.sf, power |-> r.power, chmask |-> node.chmask,
                            nb_trans |-> node.nb_trans], None, None)
                  EXCEPT !.nodes[node_id].snr_history = <<>>]
        ELSE IF Len(h1) >= SNR_HISTORY_LEN
        THEN [w1 EXCEPT !.nodes[node_id].snr_history = <<>>]
        ELSE w1

\* NetworkServer.receive, the server-side ADR block
ServerAdr(w, node_id, rssi) ==
    LET snr == rssi - NoiseFloor
        h0 == Append(w.nodes[node_id].snr_history, snr)
        h1 == IF Len(h0) > SNR_HISTORY_LEN THEN Tail(h0) ELSE h0
        w1 == [w EXCEPT !.nodes[node_id].snr_history = h1]
        node == w1.nodes[node_id]
        max_snr == SetMax(Range(h1))
        margin2 == 2 * max_snr - RequiredSnr2(node.sf, 0 - 40) - 2 * MARGIN_DB
        nstep == RoundHalfEven(margin2, 6)
        r == AdrLoop(node.sf, DbmToTxPowerIndex(node.tx_power), node.tx_power, nstep)
    IN  IF Len(h1) >= SNR_HISTORY_LEN /\ (r.sf # node.sf \/ r.power # node.tx_power)
        THEN [SendDownlink(w1, node_id, "data",
                           [sf |-> r.sf, power |-> r.power, chmask |-> node.chmask,
                            nb_trans |-> node.nb_trans], None, None)
                  EXCEPT !.nodes[node_id].snr_history = <<>>]
        ELSE w1

\* a variant of receive that records the gateway before the duplicate test
Receive_LastGateway(w, event_id, node_id, gateway_id, rssi, frame) ==
    IF event_id \in w.server.received_events
    THEN [w EXCEPT !.server.event_gateway = (event_id :> gateway_id) @@ @]
    ELSE [w EXCEPT !.server.received_events = @ \cup {event_id},
                   !.server.event_gateway = (event_id :> gateway_id) @@ @,
                   !.server.packets_received = @ + 1]

\* NetworkServer.receive(event_id, node_id, gateway_id, rssi, frame)
Receive(w, event_id, node_id, gateway_id, rssi, frame) ==
    LET w1 == [w EXCEPT !.server.received_events = @ \cup {event_id},
                        !.server.event_gateway = (event_id :> gateway_id) @@ @,
                        !.server.packets_received = @ + 1]
        known == node_id \in DOMAIN w.nodes
        gw == IF gateway_id \in DOMAIN w.gateways THEN gateway_id ELSE None
        node == w.nodes[node_id]
        w2 == IF known /\ ~node.activated
              THEN SendDownlink(w1, node_id, "join", NoAdr, None, gw)
              ELSE w1
        w3 == IF known /\ node.last_adr_ack_req
              THEN [SendDownlink(w2, node_id, "data", NoAdr, None, None)
                       EXCEPT !.nodes[node_id].last_adr_ack_req = FALSE]
              ELSE w2
    IN  IF event_id \in w.server.received_events THEN w
        ELSE IF known /\ frame = "join" /\ w.server.join_server
        THEN SendDownlink([w1 EXCEPT !.nodes[node_id].activated = TRUE],
                          node_id, "join", NoAdr, None, gw)
        ELSE IF known /\ frame = "data_bad" /\ node.security_enabled THEN w1
        ELSE IF w.server.adr_enabled /\ rssi # None /\ known
        THEN ServerAdr(w3, node_id, rssi)
        ELSE w3

\* Gateway.end_reception(event_id, server, node_id): drop the in-flight record
\* and report it to the server unless it was marked lost
EndReception(w, g, event_id, node_id) ==
    LET gw == w.gateways[g]
        I == ActiveOf(gw, event_id)
        i == CHOOSE k \in I : \A j \in I : k <= j
        rec == gw.active[i]
        w1 == [w EXCEPT !.gateways[g].active = RemoveAt(@, i)]
    IN  IF I = {} THEN w
        ELSE IF rec.lost_flag THEN w1
        ELSE Receive(w1, event_id, node_id, g, rec.rssi, "none")

----------------------------------------------------------------------------
(* Simulator: scheduling *)

\* self.duty_cycle_manager = DutyCycleManager(duty_cycle) if duty_cycle else None
\* (cfg.duty_cycle holds None, 0, or m > 0 for the duty-cycle factor 1/m)
HasDutyCycleManager == cfg.duty_cycle # None /\ cfg.duty_cycle # 0

\* DutyCycleManager.enforce(node_id, time): the earliest legal start >= time
Enforce(w, node_id, time) == Max2(time, w.duty[node_id])

\* DutyCycleManager.update_after_tx(node_id, start, duration)
UpdateAfterTx(w, node_id, start, duration) ==
    [w EXCEPT !.duty[node_id] = start + duration * cfg.duty_cycle]

\* a variant of the push that does not advance event_id_counter
PushFresh_NoIncrement(w, time, type, node_id) ==
    [w EXCEPT !.event_queue = HeapPush(@, Event(time, type, w.event_id_counter, node_id))]

\* a heappush of a new event that takes the next event id
PushFresh(w, time, type, node_id) ==
    [w EXCEPT !.event_id_counter = @ + 1,
              !.event_queue = HeapPush(@, Event(time, type, w.event_id_counter, node_id))]

\* Simulator.schedule_event(node, time)
ScheduleEvent(w, node_id, time) ==
    IF ~w.nodes[node_id].alive THEN w
    ELSE PushFresh(w, IF HasDutyCycleManager THEN Enforce(w, node_id, time) ELSE time,
                   TX_START, node_id)

\* Simulator.schedule_mobility(node, time)
ScheduleMobility(w, node_id, time) ==
    IF ~w.nodes[node_id].alive THEN w
    ELSE PushFresh(w, time, MOBILITY, node_id)

\* SmoothMobility.step: seconds between two MOBILITY events of a node
MobilityStep == 3

----------------------------------------------------------------------------
(* Simulator.step: the handlers *)

\* heappop, current_time = time, node.consume_until(time)
AfterPop ==
    LET i == HeapTop(event_queue)
        ev == event_queue[i]
    IN  [World EXCEPT !.event_queue = RemoveAt(@, i),
                      !.current_time = ev.time,
                      !.nodes[ev.node_id] = ConsumeUntil(@, ev.time)]

\* the gateways that hear a transmission of the node: snr >= threshold
HeardBy(w, node) ==
    {g \in DOMAIN w.gateways :
        ComputeRssi(node.tx_power, DistanceTo(node, g)).snr >= SnrThreshold(node.sf)}

\* TX_START, up to the battery check
TxStartCharge(w, ev) ==
    LET n == ev.node_id
        node0 == w.nodes[n]
        left == IF node0.nb_trans_left <= 0 THEN Max2(1, node0.nb_trans)
                ELSE node0.nb_trans_left
        duration == Airtime(node0.sf)
        energy_J == TxEnergy(node0.tx_power, duration)
        w1 == IF HasDutyCycleManager THEN UpdateAfterTx(w, n, ev.time, duration) ELSE w
    IN  [w1 EXCEPT !.packets_sent = @ + 1,
                   !.nodes[n] = AddEnergy([node0 EXCEPT !.nb_trans_left = left - 1,
                                                        !.packets_sent = @ + 1],
                                          energy_J)]

\* a variant of the TX_START handler that opens the first receive window only
TxStartEmit_OneWindow(w, ev) ==
    LET n == ev.node_id
        node == w.nodes[n]
        sf == node.sf
        end_time == ev.time + Airtime(sf)
        H == HeardBy(w, node)
        sig(g) == ComputeRssi(node.tx_power, DistanceTo(node, g))
        heard_by_any == H # {}
        best_rssi == IF heard_by_any THEN SetMax({sig(g).rssi : g \in H}) ELSE None
        best_snr == IF heard_by_any THEN SetMax({sig(g).snr : g \in H}) ELSE None
        rx == ScheduleReceiveWindows(node, end_time)
        w1 == [w EXCEPT
                 !.nodes[n] = [node EXCEPT !.state = "tx", !.last_state_time = ev.time,
                                           !.in_transmission = TRUE,
                                           !.current_end_time = end_time,
                                           !.last_rssi = best_rssi,
                                           !.last_snr = best_snr],
                 !.gateways = [g \in DOMAIN w.gateways |->
                                 IF g \in H
                                 THEN StartReception(w.gateways[g], ev.id, n, sf,
                                          sig(g).rssi, end_time, CaptureThreshold,
                                          w.current_time, FrequencyHz)
                                 ELSE w.gateways[g]],
                 !.event_queue = HeapPush(@, Event(end_time, TX_END, ev.id, n))]
        w2 == PushFresh(w1, rx.rx1, RX_WINDOW, n)
    IN  [w2 EXCEPT !.events_log =
            Append(@, [event_id |-> ev.id, node_id |-> n, sf |-> sf,
                       start_time |-> ev.time, end_time |-> end_time,
                       energy_J |-> TxEnergy(node.tx_power, Airtime(sf)),
                       heard |-> heard_by_any, rssi_dBm |-> best_rssi,
                       snr_dB |-> best_snr, result |-> "None",
                       gateway_id |-> None])]

\* TX_START, after the battery check: receptions, TX_END, RX windows, log
TxStartEmit(w, ev) ==
    LET n == ev.node_id
        node == w.nodes[n]
        sf == node.sf
        end_time == ev.time + Airtime(sf)
        H == HeardBy(w, node)
        sig(g) == ComputeRssi(node.tx_power, DistanceTo(node, g))
        heard_by_any == H # {}
        best_rssi == IF heard_by_any THEN SetMax({sig(g).rssi : g \in H}) ELSE None
        best_snr == IF heard_by_any THEN SetMax({sig(g).snr : g \in H}) ELSE None
        rx == ScheduleReceiveWindows(node, end_time)
        w1 == [w EXCEPT
                 !.nodes[n] = [node EXCEPT !.state = "tx", !.last_state_time = ev.time,
                                           !.in_transmission = TRUE,
                                           !.current_end_time = end_time,
                                           !.last_rssi = best_rssi,
                                           !.last_snr = best_snr],
                 !.gateways = [g \in DOMAIN w.gateways |->
                                 IF g \in H
                                 THEN StartReception(w.gateways[g], ev.id, n, sf,
                                          sig(g).rssi, end_time, CaptureThreshold,
                                          w.current_time, FrequencyHz)
                                 ELSE w.gateways[g]],
                 !.event_queue = HeapPush(@, Event(end_time, TX_END, ev.id, n))]
        w2 == PushFresh(PushFresh(w1, rx.rx1, RX_WINDOW, n), rx.rx2, RX_WINDOW, n)
    IN  [w2 EXCEPT !.events_log =
            Append(@, [event_id |-> ev.id, node_id |-> n, sf |-> sf,
                       start_time |-> ev.time, end_time |-> end_time,
                       energy_J |-> TxEnergy(node.tx_power, Airtime(sf)),
                       heard |-> heard_by_any, rssi_dBm |-> best_rssi,
                       snr_dB |-> best_snr, result |-> "None",
                       gateway_id |-> None])]

\* the whole TX_START handler
TxStart(w, ev) ==
    LET w1 == TxStartCharge(w, ev)
    IN  IF ~w1.nodes[ev.node_id].alive THEN w1 ELSE TxStartEmit(w1, ev)

\* for gw in self.gateways: gw.end_reception(event_id, self.network_server, node_id)
RECURSIVE EndReceptions(_, _, _, _)
EndReceptions(w, g, event_id, node_id) ==
    IF g \notin DOMAIN w.gateways THEN w
    ELSE EndReceptions(EndReception(w, g, event_id, node_id), g + 1, event_id, node_id)

\* the log entries with an event id, and the first of them
LogEntries(log, event_id) == {i \in DOMAIN log : log[i].event_id = event_id}
FirstLogEntry(log, event_id) ==
    CHOOSE i \in LogEntries(log, event_id) : \A j \in LogEntries(log, event_id) : i <= j

\* a variant of the classification that counts every heard packet as delivered
TxEndClassify_CountsHeard(w, ev) ==
    LET n == ev.node_id
        i == FirstLogEntry(w.events_log, ev.id)
        heard == w.events_log[i].heard
    IN  IF heard
        THEN [w EXCEPT !.packets_delivered = @ + 1,
                       !.nodes[n].packets_success = @ + 1,
                       !.events_log[i].result = "Success"]
        ELSE [w EXCEPT !.packets_lost_no_signal = @ + 1,
                       !.events_log[i].result = "NoCoverage"]

\* a variant of the TX_END classification that counts a loss of a heard
\* packet as a loss without signal, and a loss without signal as a collision
TxEndClassify_SwapsLosses(w, ev) ==
    LET n == ev.node_id
        delivered == ev.id \in w.server.received_events
        i == FirstLogEntry(w.events_log, ev.id)
        heard == w.events_log[i].heard
        w1 == IF delivered
              THEN [w EXCEPT !.packets_delivered = @ + 1,
                             !.nodes[n].packets_success = @ + 1]
              ELSE IF heard
              THEN [w EXCEPT !.packets_lost_no_signal = @ + 1]
              ELSE [w EXCEPT !.packets_lost_collision = @ + 1,
                             !.nodes[n].packets_collision = @ + 1]
    IN  [w1 EXCEPT !.events_log[i].result =
                       IF delivered THEN "Success"
                       ELSE IF heard THEN "CollisionLoss" ELSE "NoCoverage",
                   !.events_log[i].gateway_id =
                       IF delivered /\ ev.id \in DOMAIN w.server.event_gateway
                       THEN w.server.event_gateway[ev.id] ELSE None]

\* a variant of the TX_END classification that writes the result in the last
\* entry of the log
TxEndClassify_MarksLast(w, ev) ==
    LET n == ev.node_id
        delivered == ev.id \in w.server.received_events
        i == Len(w.events_log)
        heard == w.events_log[i].heard
        w1 == IF delivered
              THEN [w EXCEPT !.packets_delivered = @ + 1,
                             !.nodes[n].packets_success = @ + 1]
              ELSE IF heard
              THEN [w EXCEPT !.packets_lost_collision = @ + 1,
                             !.nodes[n].packets_collision = @ + 1]
              ELSE [w EXCEPT !.packets_lost_no_signal = @ + 1]
    IN  [w1 EXCEPT !.events_log[i].result =
                       IF delivered THEN "Success"
                       ELSE IF heard THEN "CollisionLoss" ELSE "NoCoverage",
                   !.events_log[i].gateway_id =
                       IF delivered /\ ev.id \in DOMAIN w.server.event_gateway
                       THEN w.server.event_gateway[ev.id] ELSE None]

\* TX_END: counters and the log entry's result
TxEndClassify(w, ev) ==
    LET n == ev.node_id
        delivered == ev.id \in w.server.received_events
        i == FirstLogEntry(w.events_log, ev.id)
        heard == w.events_log[i].heard
        w1 == IF delivered
              THEN [w EXCEPT !.packets_delivered = @ + 1,
                             !.nodes[n].packets_success = @ + 1]
              ELSE IF heard
              THEN [w EXCEPT !.packets_lost_collision = @ + 1,
                             !.nodes[n].packets_collision = @ + 1]
              ELSE [w EXCEPT !.packets_lost_no_signal = @ + 1]
    IN  [w1 EXCEPT !.events_log[i].result =
                       IF delivered THEN "Success"
                       ELSE IF heard THEN "CollisionLoss" ELSE "NoCoverage",
                   !.events_log[i].gateway_id =
                       IF delivered /\ ev.id \in DOMAIN w.server.event_gateway
                       THEN w.server.event_gateway[ev.id] ELSE None]

\* a variant of the node-side ADR block that raises the power before the SF
TxEndHistory_PowerFirst(w, ev) ==
    LET n == ev.node_id
        node == w.nodes[n]
        delivered == ev.id \in w.server.received_events
        h0 == Append(node.history,
                     [snr |-> IF delivered THEN node.last_snr ELSE None,
                      rssi |-> IF delivered THEN node.last_rssi ELSE None,
                      delivered |-> delivered])
        h1 == IF Len(h0) > HISTORY_LEN THEN Tail(h0) ELSE h0
        total_count == Len(h1)
        success_count == Cardinality({k \in DOMAIN h1 : h1[k].delivered})
        per_high == 10 * (total_count - success_count) > total_count
        snr_values == {h1[k].snr : k \in {j \in DOMAIN h1 : h1[j].snr # None}}
        margin_low == /\ snr_values # {}
                      /\ 2 * SetMax(snr_values) - RequiredSnr2(node.sf, 0)
                             - 2 * MARGIN_DB < 0
        n1 == [node EXCEPT !.history = h1]
    IN  [w EXCEPT !.nodes[n] =
            IF cfg.adr_node /\ (per_high \/ margin_low) /\ cfg.adr_server
            THEN IF node.tx_power < 20
                 THEN [n1 EXCEPT !.tx_power = IF @ + 3 > 20 THEN 20 ELSE @ + 3,
                                 !.history = <<>>]
                 ELSE IF node.sf < 12 THEN [n1 EXCEPT !.sf = @ + 1, !.history = <<>>]
                 ELSE [n1 EXCEPT !.history = <<>>]
            ELSE n1]

\* a variant of the TX_END history that drops the newest entry when full
TxEndHistory_DropsNewest(w, ev) ==
    LET n == ev.node_id
        node == w.nodes[n]
        delivered == ev.id \in w.server.received_events
        h0 == Append(node.history,
                     [snr |-> IF delivered THEN node.last_snr ELSE None,
                      rssi |-> IF delivered THEN node.last_rssi ELSE None,
                      delivered |-> delivered])
        h1 == IF Len(h0) > HISTORY_LEN THEN node.history ELSE h0
        total_count == Len(h1)
        success_count == Cardinality({k \in DOMAIN h1 : h1[k].delivered})
        per_high == 10 * (total_count - success_count) > total_count
        snr_values == {h1[k].snr : k \in {j \in DOMAIN h1 : h1[j].snr # None}}
        margin_low == /\ snr_values # {}
                      /\ 2 * SetMax(snr_values) - RequiredSnr2(node.sf, 0)
                             - 2 * MARGIN_DB < 0
        n1 == [node EXCEPT !.history = h1]
    IN  [w EXCEPT !.nodes[n] =
            IF cfg.adr_node /\ (per_high \/ margin_low) /\ cfg.adr_server
            THEN IF node.sf < 12 THEN [n1 EXCEPT !.sf = @ + 1, !.history = <<>>]
                 ELSE IF node.tx_power < 20
                 THEN [n1 EXCEPT !.tx_power = IF @ + 3 > 20 THEN 20 ELSE @ + 3,
                                 !.history = <<>>]
                 ELSE [n1 EXCEPT !.history = <<>>]
            ELSE n1]

\* TX_END: node.history and the node-side ADR block
TxEndHistory(w, ev) ==
    LET n == ev.node_id
        node == w.nodes[n]
        delivered == ev.id \in w.server.received_events
        h0 == Append(node.history,
                     [snr |-> IF delivered THEN node.last_snr ELSE None,
                      rssi |-> IF delivered THEN node.last_rssi ELSE None,
                      delivered |-> delivered])
        h1 == IF Len(h0) > HISTORY_LEN THEN Tail(h0) ELSE h0
        total_count == Len(h1)
        success_count == Cardinality({k \in DOMAIN h1 : h1[k].delivered})
        per_high == 10 * (total_count - success_count) > total_count
        snr_values == {h1[k].snr : k \in {j \in DOMAIN h1 : h1[j].snr # None}}
        margin_low == /\ snr_values # {}
                      /\ 2 * SetMax(snr_values) - RequiredSnr2(node.sf, 0)
                             - 2 * MARGIN_DB < 0
        n1 == [node EXCEPT !.history = h1]
    IN  [w EXCEPT !.nodes[n] =
            IF cfg.adr_node /\ (per_high \/ margin_low) /\ cfg.adr_server
            THEN IF node.sf < 12 THEN [n1 EXCEPT !.sf = @ + 1, !.history = <<>>]
                 ELSE IF node.tx_power < 20
                 THEN [n1 EXCEPT !.tx_power = IF @ + 3 > 20 THEN 20 ELSE @ + 3,
                                 !.history = <<>>]
                 ELSE [n1 EXCEPT !.history = <<>>]
            ELSE n1]

\* a variant of the test of the pruning loop that keeps the receive windows too
IsTxEnd_OrWindow(evt) == evt.type \in {TX_END, RX_WINDOW}

IsTxEnd(evt) == evt.type = TX_END

\* a variant of the rescheduling that requests the retransmission at the
\* packet interval and does not count it
TxEndReschedule_RetryAtInterval(w, ev, next_interval) ==
    LET n == ev.node_id
    IN  IF w.nodes[n].nb_trans_left > 0
        THEN ScheduleEvent(w, n, w.current_time + next_interval)
        ELSE IF cfg.packets_to_send = 0 \/ w.packets_sent < cfg.packets_to_send
        THEN ScheduleEvent(w, n, w.current_time + next_interval)
        ELSE [w EXCEPT !.event_queue = SelectSeq(@, IsTxEnd)]

\* a variant of the rescheduling that never looks at packets_to_send
TxEndReschedule_NoBudget(w, ev, next_interval) ==
    LET n == ev.node_id
    IN  IF w.nodes[n].nb_trans_left > 0
        THEN ScheduleEvent([w EXCEPT !.retransmissions = @ + 1], n, w.current_time + 1)
        ELSE ScheduleEvent(w, n, w.current_time + next_interval)

\* a variant of the rescheduling whose pruning removes the TX_START events only
TxEndReschedule_PrunesStarts(w, ev, next_interval) ==
    LET n == ev.node_id
        NotTxStart(evt) == evt.type # TX_START
    IN  IF w.nodes[n].nb_trans_left > 0
        THEN ScheduleEvent([w EXCEPT !.retransmissions = @ + 1], n, w.current_time + 1)
        ELSE IF cfg.packets_to_send = 0 \/ w.packets_sent < cfg.packets_to_send
        THEN ScheduleEvent(w, n, w.current_time + next_interval)
        ELSE [w EXCEPT !.event_queue = SelectSeq(@, NotTxStart)]

\* TX_END: retransmission, next transmission, or pruning of the queue
TxEndReschedule(w, ev, next_interval) ==
    LET n == ev.node_id
    IN  IF w.nodes[n].nb_trans_left > 0
        THEN ScheduleEvent([w EXCEPT !.retransmissions = @ + 1], n, w.current_time + 1)
        ELSE IF cfg.packets_to_send = 0 \/ w.packets_sent < cfg.packets_to_send
        THEN ScheduleEvent(w, n, w.current_time + next_interval)
        ELSE [w EXCEPT !.event_queue = SelectSeq(@, IsTxEnd)]

\* the whole TX_END handler
TxEnd(w, ev, next_interval) ==
    LET n == ev.node_id
        w1 == [w EXCEPT !.nodes[n].in_transmission = FALSE,
                        !.nodes[n].current_end_time = None,
                        !.nodes[n].state = "processing"]
        w2 == EndReceptions(w1, 1, ev.id, n)
    IN  TxEndReschedule(TxEndHistory(TxEndClassify(w2, ev), ev), ev, next_interval)

\* a variant of the gateway loop that keeps the last gateway holding a downlink
SelectedGateway_Last(w, n) ==
    LET G == {g \in DOMAIN w.gateways : w.gateways[g].downlink_buffer[n] # <<>>}
    IN  IF G = {} THEN None ELSE CHOOSE g \in G : \A h \in G : g >= h

\* the first gateway, in order, that holds a downlink for the node
SelectedGateway(w, n) ==
    LET G == {g \in DOMAIN w.gateways : w.gateways[g].downlink_buffer[n] # <<>>}
    IN  IF G = {} THEN None ELSE CHOOSE g \in G : \A h \in G : g <= h

\* the whole RX_WINDOW handler
\* a variant of the RX_WINDOW handler that pops the frame and never hands it
\* to the node
RxWindow_DropsFrame(w, ev) ==
    LET n == ev.node_id
        node0 == AddEnergy(w.nodes[n], Profile.rx_window_energy)
        node1 == [node0 EXCEPT !.last_state_time = ev.time + Profile.rx_window_duration,
                               !.state = "sleep"]
        g == SelectedGateway(w, n)
        w1 == IF g = None THEN [w EXCEPT !.nodes[n] = node1]
              ELSE [w EXCEPT !.gateways[g] = PopDownlink(@, n),
                             !.nodes[n] = node1]
    IN  IF ~node0.alive THEN [w EXCEPT !.nodes[n] = node0]
        ELSE IF node1.class_type = "B"
        THEN PushFresh(w1, ev.time + 30, RX_WINDOW, n)
        ELSE IF node1.class_type = "C" /\ g # None
                /\ w1.gateways[g].downlink_buffer[n] # <<>>
        THEN PushFresh(w1, ev.time + 1, RX_WINDOW, n)
        ELSE w1

RxWindow(w, ev) ==
    LET n == ev.node_id
        node0 == AddEnergy(w.nodes[n], Profile.rx_window_energy)
        node1 == [node0 EXCEPT !.last_state_time = ev.time + Profile.rx_window_duration,
                               !.state = "sleep"]
        g == SelectedGateway(w, n)
        frame == Head(w.gateways[g].downlink_buffer[n])
        ok == ComputeRssi(node1.tx_power, DistanceTo(node1, g)).snr
                  >= SnrThreshold(node1.sf)
        w1 == IF g = None THEN [w EXCEPT !.nodes[n] = node1]
              ELSE [w EXCEPT !.gateways[g] = PopDownlink(@, n),
                             !.nodes[n] = IF ok THEN HandleDownlink(node1, frame)
                                          ELSE node1]
    IN  IF ~node0.alive THEN [w EXCEPT !.nodes[n] = node0]
        ELSE IF node1.class_type = "B"
        THEN PushFresh(w1, ev.time + 30, RX_WINDOW, n)
        ELSE IF node1.class_type = "C" /\ g # None
                /\ w1.gateways[g].downlink_buffer[n] # <<>>
        THEN PushFresh(w1, ev.time + 1, RX_WINDOW, n)
        ELSE w1

\* a variant of the MOBILITY handler that schedules the next move whatever the
\* packet budget
Mobility_IgnoresBudget(w, ev, new_x) ==
    LET n == ev.node_id
        node == w.nodes[n]
        w1 == [w EXCEPT !.nodes[n].x = new_x,
                        !.events_log =
                            Append(@, [event_id |-> ev.id, node_id |-> n,
                                       sf |-> node.sf, start_time |-> ev.time,
                                       end_time |-> ev.time, energy_J |-> 0,
                                       heard |-> FALSE, rssi_dBm |-> None,
                                       snr_dB |-> None, result |-> "Mobility",
                                       gateway_id |-> None])]
    IN  IF ~cfg.mobility_enabled THEN w
        ELSE IF node.in_transmission
        THEN ScheduleMobility(w, n, IF node.current_end_time # None
                                    THEN node.current_end_time ELSE w.current_time)
        ELSE IF TRUE
        THEN ScheduleMobility(w1, n, ev.time + MobilityStep)
        ELSE w1

\* the whole MOBILITY handler; new_x is where mobility_model.move puts the node
Mobility(w, ev, new_x) ==
    LET n == ev.node_id
        node == w.nodes[n]
        w1 == [w EXCEPT !.nodes[n].x = new_x,
                        !.events_log =
                            Append(@, [event_id |-> ev.id, node_id |-> n,
                                       sf |-> node.sf, start_time |-> ev.time,
                                       end_time |-> ev.time, energy_J |-> 0,
                                       heard |-> FALSE, rssi_dBm |-> None,
                                       snr_dB |-> None, result |-> "Mobility",
                                       gateway_id |-> None])]
    IN  IF ~cfg.mobility_enabled THEN w
        ELSE IF node.in_transmission
        THEN ScheduleMobility(w, n, IF node.current_end_time # None
                                    THEN node.current_end_time ELSE w.current_time)
        ELSE IF cfg.packets_to_send = 0 \/ w.packets_sent < cfg.packets_to_send
        THEN ScheduleMobility(w1, n, ev.time + MobilityStep)
        ELSE w1

----------------------------------------------------------------------------
(* Simulator.__init__ *)

\* Node(node_id, x, y, sf, tx_power, channel, battery_capacity_j) and the
\* attributes Simulator.__init__ adds
NewNode(n, x, sf, class_type, nb_trans, battery_capacity_j) ==
    [id |-> n, x |-> x, sf |-> sf, tx_power |-> 14, class_type |-> class_type,
     alive |-> TRUE, battery_remaining_j |-> battery_capacity_j,
     energy_consumed |-> 0, state |-> "idle", last_state_time |-> 0,
     in_transmission |-> FALSE, current_end_time |-> None,
     last_rssi |-> None, last_snr |-> None,
     nb_trans |-> nb_trans, nb_trans_left |-> 0,
     history |-> <<>>, snr_history |-> <<>>, rx_delay |-> 1,
     downlink_pending |-> 0, fcnt_down |-> 0, chmask |-> 65535,
     activated |-> TRUE, security_enabled |-> FALSE,
     last_adr_ack_req |-> FALSE, last_beacon_time |-> None,
     packets_sent |-> 0, packets_success |-> 0, packets_collision |-> 0]

\* the loop "Planifier le premier envoi de chaque noeud", from node n on
RECURSIVE FirstEvents(_, _, _)
FirstEvents(w, n, t0) ==
    IF n \notin Nodes THEN w
    ELSE LET w1 == ScheduleEvent(w, n, t0[n])
             w2 == IF cfg.mobility_enabled THEN ScheduleMobility(w1, n, MobilityStep)
                   ELSE w1
             w3 == IF w.nodes[n].class_type \in {"B", "C"}
                   THEN PushFresh(w2, 0, RX_WINDOW, n) ELSE w2
         IN  FirstEvents(w3, n + 1, t0)

\* tx_power = self.fixed_tx_power if self.fixed_tx_power is not None else 14.0
FixedTxPower(c) == IF "fixed_tx_power" \in DOMAIN c THEN c.fixed_tx_power ELSE 14

\* the simulator as constructed from configuration c, with the first
\* transmission of node n drawn at t0[n]
Constructed(c, t0) ==
    /\ cfg = c
    /\ running = TRUE
    /\ dispatched = <<>>
    /\ LET w0 == [event_queue |-> <<>>, current_time |-> 0, event_id_counter |-> 0,
                  packets_sent |-> 0, packets_delivered |-> 0,
                  packets_lost_collision |-> 0, packets_lost_no_signal |-> 0,
                  retransmissions |-> 0, events_log |-> <<>>,
                  nodes |-> [n \in Nodes |->
                                [NewNode(n, c.x[n], c.sf[n], c.class_type, c.nb_trans,
                                         c.battery_capacity_j)
                                    EXCEPT !.tx_power = FixedTxPower(c)]],
                  gateways |-> [g \in 1..c.num_gateways |-> NewGateway(g)],
                  server |-> NewServer(c.adr_server),
                  duty |-> [n \in Nodes |-> 0]]
       IN  \E w \in {FirstEvents(w0, 1, t0)} :
           /\ event_queue = w.event_queue
           /\ current_time = w.current_time
           /\ event_id_counter = w.event_id_counter
           /\ packets_sent = w.packets_sent
           /\ packets_delivered = w.packets_delivered
           /\ packets_lost_collision = w.packets_lost_collision
           /\ packets_lost_no_signal = w.packets_lost_no_signal
           /\ retransmissions = w.retransmissions
           /\ events_log = w.events_log
           /\ nodes = w.nodes
           /\ gateways = w.gateways
           /\ server = w.server
           /\ duty = w.duty

\* the configurations explored: all radio layouts of two plain nodes, and
\* all life cycles (battery, class, mobility, retransmissions) of two near nodes
RadioConfigs ==
    [num_gateways : {1, 2},
     packets_to_send : {0, 3},
     transmission_mode : {"random", "periodic"},
     packet_interval : {2},
     mobility_enabled : {FALSE},
     adr_node : {FALSE},
     adr_server : BOOLEAN,
     duty_cycle : {None, 3},
     battery_capacity_j : {None},
     nb_trans : {1},
     class_type : {"A"},
     x : {<<1, 0>>, <<1, 1>>, <<1, 2>>, <<1, 40>>},
     sf : {<<7, 7>>, <<7, 8>>, <<8, 8>>}]

LifeConfigs ==
    [num_gateways : {1},
     packets_to_send : {0, 3},
     transmission_mode : {"random", "periodic"},
     packet_interval : {2},
     mobility_enabled : BOOLEAN,
     adr_node : {FALSE},
     adr_server : {FALSE},
     duty_cycle : {None},
     battery_capacity_j : {None, 30, 55},
     nb_trans : {1, 2},
     class_type : {"A", "B", "C"},
     x : {<<1, 0>>, <<1, 1>>},
     sf : {<<7, 7>>, <<7, 8>>}]

Configs == RadioConfigs \cup LifeConfigs

\* the server ADR scenario: node 1 at SF12 on a good link, node 2 out of range
AdrConfigs ==
    [num_gateways : {1},
     packets_to_send : {0, 40},
     transmission_mode : {"periodic"},
     packet_interval : {2},
     mobility_enabled : {FALSE},
     adr_node : {FALSE},
     adr_server : {TRUE},
     duty_cycle : {None},
     battery_capacity_j : {None},
     nb_trans : {1},
     class_type : {"A", "B"},
     x : {<<8, 40>>, <<1, 40>>},
     sf : {<<12, 12>>}]

\* the configurations followed through a call of run
RunConfigs ==
    {c \in LifeConfigs : /\ c.class_type = "A"
                         /\ c.nb_trans = 1
                         /\ c.battery_capacity_j \in {None, 30}}

\* runs with a small packet budget, followed until the queue is empty
BudgetConfigs ==
    [num_gateways : {1},
     packets_to_send : {1, 2, 4},
     transmission_mode : {"random", "periodic"},
     packet_interval : {2},
     mobility_enabled : BOOLEAN,
     adr_node : {FALSE},
     adr_server : {FALSE},
     duty_cycle : {None},
     battery_capacity_j : {None, 30},
     nb_trans : {1, 2},
     class_type : {"A", "B", "C"},
     x : {<<1, 0>>},
     sf : {<<7, 8>>}]

\* node-side ADR: the first node has a good or a poor link to the gateway, the
\* second node is out of range
NodeAdrConfigs ==
    [num_gateways : {1}, packets_to_send : {0}, transmission_mode : {"periodic"},
     packet_interval : {2}, mobility_enabled : {FALSE}, adr_node : {TRUE},
     adr_server : BOOLEAN, duty_cycle : {None}, battery_capacity_j : {None},
     nb_trans : {1}, class_type : {"A"}, x : {<<1, 40>>, <<9, 40>>},
     sf : {<<7, 11>>, <<7, 12>>}]

\* server-side ADR for nodes built with fixed_tx_power; the link of the first
\* node leaves a margin of one ADR step or of many
PowerConfigs ==
    [num_gateways : {1}, packets_to_send : {0}, transmission_mode : {"periodic"},
     packet_interval : {2}, mobility_enabled : {FALSE}, adr_node : BOOLEAN,
     adr_server : {TRUE}, duty_cycle : {None}, battery_capacity_j : {None},
     nb_trans : {1}, class_type : {"A"}, x : {<<9, 40>>, <<1, 40>>},
     sf : {<<12, 12>>, <<8, 12>>}, fixed_tx_power : {14, 17}]

\* the number of events after which the model stops following a run
StepLimit ==
    IF cfg \in AdrConfigs \cup PowerConfigs THEN MaxAdrSteps
    ELSE IF cfg \in NodeAdrConfigs THEN MaxNodeAdrSteps
    ELSE IF cfg \in BudgetConfigs THEN MaxBudgetSteps
    ELSE MaxSteps

\* the first start times drawn for the nodes
FirstTimes == {<<0, 0>>, <<0, 1>>, <<1, 0>>}

\* random.expovariate(1 / packet_interval): the intervals drawn in Random mode
RandomIntervals == {1, 3}

\* where a MOBILITY event may put a node
MovePositions == {2, 40}

\* step() is called directly: no call of run is in progress
NoRun == [mode |-> "direct", max_steps |-> None, step_count |-> 0]

\* no component has been called on its own
NoCall == [op |-> "none"]

Init ==
    /\ \E c \in Configs, t0 \in FirstTimes : Constructed(c, t0)
    /\ runner = NoRun
    /\ call = NoCall

----------------------------------------------------------------------------
(* Simulator.step, one action per outcome *)

\* step() pops an event: self.running and self.event_queue
\* a variant of the guard of step() that does not test self.running
CanStep_IgnoresRunning ==
    /\ event_queue # <<>>
    /\ runner.mode # "returned"
    /\ Len(dispatched) < StepLimit

CanStep ==
    /\ running
    /\ event_queue # <<>>
    /\ runner.mode # "returned"
    /\ Len(dispatched) < StepLimit

\* the event step() pops
Popped == event_queue[HeapTop(event_queue)]

\* a variant of the loop test of run() that breaks one step late
AfterStep_OneLate(r) ==
    IF r.mode # "run" THEN r
    ELSE [r EXCEPT !.step_count = @ + 1,
                   !.mode = IF r.max_steps # None /\ r.max_steps # 0
                               /\ r.step_count + 1 > r.max_steps
                            THEN "returned" ELSE "run"]

\* run(): step_count += 1; if max_steps and step_count >= max_steps: break
AfterStep(r) ==
    IF r.mode # "run" THEN r
    ELSE [r EXCEPT !.step_count = @ + 1,
                   !.mode = IF r.max_steps # None /\ r.max_steps # 0
                               /\ r.step_count + 1 >= r.max_steps
                            THEN "returned" ELSE "run"]

Record(handled) ==
    /\ dispatched' = Append(dispatched, [event |-> Popped, handled |-> handled])
    /\ runner' = AfterStep(runner)

\* the node is dead after consume_until: the event is dropped
StepDead ==
    /\ CanStep
    /\ \E w0 \in {AfterPop} :
          /\ ~w0.nodes[Popped.node_id].alive
          /\ Commit(w0)
    /\ Record(FALSE)
    /\ UNCHANGED <<cfg, running, call>>

\* a variant of the TX_START step without the test of node.alive
StepTxStart_NoAliveCheck ==
    /\ CanStep
    /\ Popped.type = TX_START
    /\ \E w0 \in {AfterPop} : \E w \in {TxStart(w0, Popped)} : Commit(w)
    /\ Record(TRUE)
    /\ UNCHANGED <<cfg, running, call>>

StepTxStart ==
    /\ CanStep
    /\ Popped.type = TX_START
    /\ \E w0 \in {AfterPop} :
          /\ w0.nodes[Popped.node_id].alive
          /\ \E w \in {TxStart(w0, Popped)} : Commit(w)
    /\ Record(TRUE)
    /\ UNCHANGED <<cfg, running, call>>

StepTxEnd ==
    /\ CanStep
    /\ Popped.type = TX_END
    /\ \E w0 \in {AfterPop} :
          /\ w0.nodes[Popped.node_id].alive
          /\ \E next_interval \in IF cfg.transmission_mode = "random"
                                  THEN RandomIntervals ELSE {cfg.packet_interval} :
                \E w \in {TxEnd(w0, Popped, next_interval)} : Commit(w)
    /\ Record(TRUE)
    /\ UNCHANGED <<cfg, running, call>>

StepRxWindow ==
    /\ CanStep
    /\ Popped.type = RX_WINDOW
    /\ \E w0 \in {AfterPop} :
          /\ w0.nodes[Popped.node_id].alive
          /\ \E w \in {RxWindow(w0, Popped)} : Commit(w)
    /\ Record(TRUE)
    /\ UNCHANGED <<cfg, running, call>>

StepMobility ==
    /\ CanStep
    /\ Popped.type = MOBILITY
    /\ \E w0 \in {AfterPop} :
          /\ w0.nodes[Popped.node_id].alive
          /\ \E new_x \in MovePositions :
                \E w \in {Mobility(w0, Popped, new_x)} : Commit(w)
    /\ Record(TRUE)
    /\ UNCHANGED <<cfg, running, call>>

\* Simulator.stop()
Stop ==
    /\ running
    /\ running' = FALSE
    /\ UNCHANGED <<cfg, event_queue, current_time, event_id_counter, packets_sent,
                   packets_delivered, packets_lost_collision, packets_lost_no_signal,
                   retransmissions, events_log, nodes, gateways, server, duty,
                   dispatched, runner, call>>

Next ==
    \/ StepDead
    \/ StepTxStart
    \/ StepTxEnd
    \/ StepRxWindow
    \/ StepMobility
    \/ Stop

Spec == Init /\ [][Next]_vars

----------------------------------------------------------------------------
(* Simulator.run(max_steps) *)

\* the values of max_steps: None, 0, 1, ..
RunLimits == {None} \cup 0..MaxRunLimit

\* run() has been called on a new simulator
InitRun ==
    /\ \E c \in RunConfigs, t0 \in FirstTimes : Constructed(c, t0)
    /\ \E n \in RunLimits : runner = [mode |-> "run", max_steps |-> n, step_count |-> 0]
    /\ call = NoCall

\* while self.event_queue and self.running: the loop ends
RunReturn ==
    /\ runner.mode = "run"
    /\ ~(event_queue # <<>> /\ running)
    /\ runner' = [runner EXCEPT !.mode = "returned"]
    /\ UNCHANGED <<cfg, event_queue, current_time, event_id_counter, packets_sent,
                   packets_delivered, packets_lost_collision, packets_lost_no_signal,
                   retransmissions, events_log, running, nodes, gateways, server,
                   duty, dispatched, call>>

NextRun ==
    \/ StepDead
    \/ StepTxStart
    \/ StepTxEnd
    \/ StepRxWindow
    \/ StepMobility
    \/ Stop
    \/ RunReturn

SpecRun == InitRun /\ [][NextRun]_vars

----------------------------------------------------------------------------
(* Simulator.run() with a packet budget, never stopped from outside *)

InitBudget ==
    /\ \E c \in BudgetConfigs, t0 \in FirstTimes : Constructed(c, t0)
    /\ runner = [mode |-> "run", max_steps |-> None, step_count |-> 0]
    /\ call = NoCall

NextBudget ==
    \/ StepDead
    \/ StepTxStart
    \/ StepTxEnd
    \/ StepRxWindow
    \/ StepMobility
    \/ RunReturn

SpecBudget == InitBudget /\ [][NextBudget]_vars

\* the loop of run() is not over, and the model still follows it
LoopBusy == runner.mode = "run" /\ Len(dispatched) < StepLimit

\* the loop of run() goes on as long as its condition holds: weak fairness of
\* NextBudget, which is enabled exactly when LoopBusy holds
SpecBudgetFair == SpecBudget /\ ([]<>(~LoopBusy) \/ []<><<TRUE>>_vars)

----------------------------------------------------------------------------
(* The server ADR scenario, run without a stop *)

InitAdr ==
    /\ \E c \in AdrConfigs : Constructed(c, <<0, 0>>)
    /\ runner = NoRun
    /\ call = NoCall

NextAdr ==
    \/ StepTxStart
    \/ StepTxEnd
    \/ StepRxWindow

SpecAdr == InitAdr /\ [][NextAdr]_vars

----------------------------------------------------------------------------
(* OmnetPHY.capture on its own: the call is drawn, then made *)

RssiInputs == {-100, -96, -94, -90}
ThresholdInputs == {0, 6}
RssiLists == UNION {[1..k -> RssiInputs] : k \in 0..MaxRssiList}

InitPhy ==
    /\ \E c \in RunConfigs : Constructed(c, <<0, 0>>)
    /\ cfg.battery_capacity_j = None /\ cfg.num_gateways = 1
    /\ cfg.packets_to_send = 0 /\ cfg.transmission_mode = "periodic"
    /\ runner = NoRun
    /\ \E l \in RssiLists, th \in ThresholdInputs :
          call = [op |-> "capture", rssi_list |-> l, capture_threshold_dB |-> th,
                  returned |-> FALSE, winners |-> <<>>]

PhyCapture ==
    /\ call.op = "capture"
    /\ ~call.returned
    /\ call' = [call EXCEPT !.returned = TRUE,
                            !.winners = Capture(call.rssi_list, call.capture_threshold_dB)]
    /\ UNCHANGED <<event_queue, current_time, event_id_counter, packets_sent,
                   packets_delivered, packets_lost_collision, packets_lost_no_signal,
                   retransmissions, events_log, running, nodes, gateways, server,
                   duty, cfg, dispatched, runner>>

NextPhy == PhyCapture

SpecPhy == InitPhy /\ [][NextPhy]_vars

----------------------------------------------------------------------------
(* The server ADR step on its own: the inputs are drawn, then the loops run *)

InitAdrStep ==
    /\ \E c \in RunConfigs : Constructed(c, <<0, 0>>)
    /\ cfg.battery_capacity_j = None /\ cfg.packets_to_send = 0
    /\ cfg.transmission_mode = "periodic" /\ ~cfg.mobility_enabled
    /\ cfg.x = <<1, 0>> /\ cfg.sf = <<7, 7>>
    /\ runner = NoRun
    /\ \E sf \in 7..12, p_idx \in 0..P_MAX_IDX, nstep \in (0 - MaxNstep)..MaxNstep :
          call = [op |-> "adr_step", sf |-> sf, p_idx |-> p_idx,
                  power |-> TxPowerIndexToDbm(p_idx), nstep |-> nstep,
                  returned |-> FALSE, result |-> [sf |-> sf, p_idx |-> p_idx,
                                                  power |-> TxPowerIndexToDbm(p_idx)]]

ApplyAdrStep ==
    /\ call.op = "adr_step"
    /\ ~call.returned
    /\ call' = [call EXCEPT !.returned = TRUE,
                            !.result = AdrLoop(call.sf, call.p_idx, call.power, call.nstep)]
    /\ UNCHANGED <<event_queue, current_time, event_id_counter, packets_sent,
                   packets_delivered, packets_lost_collision, packets_lost_no_signal,
                   retransmissions, events_log, running, nodes, gateways, server,
                   duty, cfg, dispatched, runner>>

NextAdrStep == ApplyAdrStep

SpecAdrStep == InitAdrStep /\ [][NextAdrStep]_vars

----------------------------------------------------------------------------
(* NetworkServer.receive on its own: gateway 1 reports uplinks of node 1 *)

ReceiveConfigs ==
    [num_gateways : {1}, packets_to_send : {0}, transmission_mode : {"periodic"},
     packet_interval : {2}, mobility_enabled : {FALSE}, adr_node : {FALSE},
     adr_server : BOOLEAN, duty_cycle : {None}, battery_capacity_j : {None},
     nb_trans : {1}, class_type : {"A"},
     x : {<<1, 40>>, <<8, 40>>, <<9, 40>>, <<10, 40>>},
     sf : {<<7, 7>>, <<12, 12>>}]

InitReceive ==
    /\ \E c \in ReceiveConfigs : Constructed(c, <<0, 0>>)
    /\ runner = NoRun
    /\ call = NoCall

\* the RSSI gateway 1 measures for node 1
MeasuredRssi == ComputeRssi(nodes[1].tx_power, DistanceTo(nodes[1], 1)).rssi

UnitReceive ==
    /\ server.packets_received < MaxReceives
    /\ \E duplicate \in BOOLEAN, rssi \in {None, MeasuredRssi} :
          /\ duplicate => server.packets_received > 0
          /\ \E event_id \in {IF duplicate THEN server.packets_received - 1
                               ELSE server.packets_received} :
                /\ \E w \in {Receive(World, event_id, 1, 1, rssi, "data")} : Commit(w)
                /\ call' = [op |-> "receive", node_id |-> 1, event_id |-> event_id,
                            rssi |-> rssi]
    /\ UNCHANGED <<cfg, running, dispatched, runner>>

NextReceive == UnitReceive

SpecReceive == InitReceive /\ [][NextReceive]_vars

----------------------------------------------------------------------------
(* The network server on its own: downlinks are sent, then delivered *)

UnitConfigs ==
    [num_gateways : {2}, packets_to_send : {0}, transmission_mode : {"periodic"},
     packet_interval : {2}, mobility_enabled : {FALSE}, adr_node : {FALSE},
     adr_server : {FALSE}, duty_cycle : {None}, battery_capacity_j : {None},
     nb_trans : {1}, class_type : {"A", "B"}, x : {<<1, 1>>}, sf : {<<7, 7>>}]

\* the at_time arguments of send_downlink, the times of deliver_scheduled
SendTimes == {None, 1, 3}
UnitTimes == {1, 2, 3}
\* the gateway arguments of send_downlink: none, or the second gateway
SendGateways == {None} \cup (DOMAIN gateways \ {1})

InitServer ==
    /\ \E c \in UnitConfigs : Constructed(c, <<0, 0>>)
    /\ runner = NoRun
    /\ call = NoCall

UnitSendDownlink ==
    /\ nodes[1].fcnt_down + nodes[2].fcnt_down < MaxUnitFrames
    /\ \E n \in Nodes, at \in SendTimes, g \in SendGateways :
          /\ \E w \in {SendDownlink(World, n, "data", NoAdr, at, g)} : Commit(w)
          /\ call' = [op |-> "send_downlink", node_id |-> n, now |-> None]
    /\ UNCHANGED <<cfg, running, dispatched, runner>>

UnitDeliverScheduled ==
    /\ \E n \in Nodes, now \in UnitTimes :
          /\ \E w \in {DeliverScheduled(World, n, now)} : Commit(w)
          /\ call' = [op |-> "deliver_scheduled", node_id |-> n, now |-> now]
    /\ UNCHANGED <<cfg, running, dispatched, runner>>

NextServer == UnitSendDownlink \/ UnitDeliverScheduled

SpecServer == InitServer /\ [][NextServer]_vars

----------------------------------------------------------------------------
(* Runs with a duty-cycle factor of None, of 0 and of 1/3 *)

DutyConfigs ==
    [num_gateways : {1}, packets_to_send : {0}, transmission_mode : {"random", "periodic"},
     packet_interval : {2}, mobility_enabled : {FALSE}, adr_node : {FALSE},
     adr_server : {FALSE}, duty_cycle : {None, 0, 3}, battery_capacity_j : {None},
     nb_trans : {1}, class_type : {"A"}, x : {<<1, 0>>}, sf : {<<7, 8>>}]

InitDuty ==
    /\ \E c \in DutyConfigs, t0 \in FirstTimes : Constructed(c, t0)
    /\ runner = NoRun
    /\ call = NoCall

NextDuty == StepTxStart \/ StepTxEnd \/ StepRxWindow

SpecDuty == InitDuty /\ [][NextDuty]_vars

----------------------------------------------------------------------------
(* Runs of nodes built with fixed_tx_power, until the server's ADR acts *)

InitPower ==
    /\ \E c \in PowerConfigs : Constructed(c, <<0, 0>>)
    /\ runner = NoRun
    /\ call = NoCall

NextPower == StepTxStart \/ StepTxEnd \/ StepRxWindow

SpecPower == InitPower /\ [][NextPower]_vars

----------------------------------------------------------------------------
(* Node-side ADR: step() with adr_node on *)

InitNodeAdr ==
    /\ \E c \in NodeAdrConfigs, t0 \in FirstTimes : Constructed(c, t0)
    /\ runner = NoRun
    /\ call = NoCall

NextNodeAdr == StepTxStart \/ StepTxEnd \/ StepRxWindow

SpecNodeAdr == InitNodeAdr /\ [][NextNodeAdr]_vars

----------------------------------------------------------------------------
(* send_downlink of the simulator's network server, for every class and with
   or without gateways *)

SendConfigs ==
    [num_gateways : {0, 2}, packets_to_send : {0}, transmission_mode : {"periodic"},
     packet_interval : {2}, mobility_enabled : {FALSE}, adr_node : {FALSE},
     adr_server : {FALSE}, duty_cycle : {None}, battery_capacity_j : {None},
     nb_trans : {1}, class_type : {"A", "B", "C"}, x : {<<1, 1>>}, sf : {<<7, 7>>}]

InitSend ==
    /\ \E c \in SendConfigs : Constructed(c, <<0, 0>>)
    /\ runner = NoRun
    /\ call = NoCall

NextSend == UnitSendDownlink

SpecSend == InitSend /\ [][NextSend]_vars

----------------------------------------------------------------------------
(* Receive windows: downlinks are sent to the gateways while step() runs *)

\* the first node is in range of both gateways or of the second only, the
\* second node is out of range
WindowConfigs ==
    [num_gateways : {2}, packets_to_send : {0}, transmission_mode : {"periodic"},
     packet_interval : {2}, mobility_enabled : {FALSE}, adr_node : {FALSE},
     adr_server : {FALSE}, duty_cycle : {None}, battery_capacity_j : {None},
     nb_trans : {1}, class_type : {"A", "B", "C"}, x : {<<1, 40>>, <<14, 40>>},
     sf : {<<7, 7>>}]

InitWindow ==
    /\ \E c \in WindowConfigs : Constructed(c, <<0, 1>>)
    /\ runner = NoRun
    /\ call = NoCall

\* sim.network_server.send_downlink(node, payload, gateway=...) between steps
WindowSendDownlink ==
    /\ nodes[1].fcnt_down + nodes[2].fcnt_down < MaxUnitFrames
    /\ \E n \in Nodes, g \in SendGateways :
          /\ \E w \in {SendDownlink(World, n, "data", NoAdr, None, g)} : Commit(w)
          /\ call' = [op |-> "send_downlink", node_id |-> n, now |-> None]
    /\ UNCHANGED <<cfg, running, dispatched, runner>>

NextWindow == WindowSendDownlink \/ StepTxStart \/ StepTxEnd \/ StepRxWindow

SpecWindow == InitWindow /\ [][NextWindow]_vars

----------------------------------------------------------------------------
(* Properties *)

\* the positions in the history of the events of a type, handled or not
DispatchedOf(type) == {i \in DOMAIN dispatched : dispatched[i].event.type = type}

\* the pending events of a type
PendingOf(type) == {i \in DOMAIN event_queue : event_queue[i].type = type}

\* C1 (as claimed): once the queue is drained, every TX_START that step()
\* handled was followed by exactly one TX_END popped with the same event id
C1_Pairing ==
    event_queue = <<>> =>
        \A i \in DispatchedOf(TX_START) :
            dispatched[i].handled =>
                Cardinality({j \in DispatchedOf(TX_END) :
                                /\ j > i
                                /\ dispatched[j].event.id = dispatched[i].event.id}) = 1

\* C2 (as claimed): packets_sent is the sum of the three outcome counters
\* and of the number of pending TX_END events
C2_Accounting ==
    packets_sent = packets_delivered + packets_lost_collision
                       + packets_lost_no_signal + Cardinality(PendingOf(TX_END))

\* C3: the server's received_events has as many elements as packets_delivered
C3_ReceivedIsDelivered ==
    Cardinality(server.received_events) = packets_delivered

\* C3 witness: deliveries and losses have both been counted
C3_Witness ==
    /\ packets_delivered >= 2
    /\ packets_lost_collision >= 1
    /\ Cardinality(server.received_events) = packets_delivered

\* the last event step() popped
LastDispatched == dispatched[Len(dispatched)]

\* the inputs of a call of receive
FrameKinds == {"none", "data", "data_bad", "join"}
RssiValues == {None, 0 - 90}

\* C4: in every reachable state, a call of receive with an event id that is
\* already in received_events, whatever node, gateway, rssi and frame it
\* carries, leaves the whole state as it is (received_events, packets_received,
\* event_gateway, gateway buffers and scheduler, every node's snr_history);
\* and the reports of one packet by several gateways were counted once
C4_DuplicateIgnored ==
    /\ \A w \in {World} :
          \A e \in server.received_events :
             \A n \in Nodes \cup {3}, g \in AllGateways \cup {3},
                r \in RssiValues, f \in FrameKinds :
                   Receive(w, e, n, g, r, f) = w
    /\ server.packets_received = Cardinality(server.received_events)
    /\ DOMAIN server.event_gateway = server.received_events

\* C4 witness: the only packet sent so far was heard by both gateways; both
\* reported it at its TX_END and it is recorded once, with the first gateway
C4_Witness ==
    /\ cfg.num_gateways = 2
    /\ cfg.adr_server
    /\ packets_sent = 1
    /\ Len(events_log) = 1
    /\ events_log[1].result = "Success"
    /\ HeardBy(World, nodes[events_log[1].node_id]) = {1, 2}
    /\ server.received_events = {events_log[1].event_id}
    /\ server.packets_received = 1
    /\ server.event_gateway[events_log[1].event_id] = 1
    /\ Len(nodes[events_log[1].node_id].snr_history) = 1

\* the log entries of transmissions
TxEntries == {i \in DOMAIN events_log : events_log[i].result # "Mobility"}

\* two logged transmissions overlap in time on the same sf, both in range
Overlap(i, j) ==
    /\ events_log[i].sf = events_log[j].sf
    /\ events_log[i].heard /\ events_log[j].heard
    /\ events_log[i].start_time < events_log[j].end_time
    /\ events_log[j].start_time < events_log[i].end_time

\* exactly the two transmissions i and j overlap, and both TX_END were popped
TwoOverlap(i, j) ==
    /\ i # j
    /\ Overlap(i, j)
    /\ \A k \in TxEntries \ {i, j} : ~Overlap(i, k) /\ ~Overlap(j, k)
    /\ \A q \in PendingOf(TX_END) :
          event_queue[q].id \notin {events_log[i].event_id, events_log[j].event_id}

\* C5 (as claimed): with one gateway, when exactly two uplinks overlap on the
\* same (frequency, sf), the stronger is delivered iff it leads by the capture
\* threshold and the weaker is classified CollisionLoss; otherwise both are
\* classified CollisionLoss
C5_CaptureLaw ==
    cfg.num_gateways = 1 =>
        \A i, j \in TxEntries :
            (TwoOverlap(i, j) /\ events_log[i].rssi_dBm >= events_log[j].rssi_dBm) =>
                IF events_log[i].rssi_dBm - events_log[j].rssi_dBm >= CaptureThreshold
                THEN /\ events_log[i].event_id \in server.received_events
                     /\ events_log[i].result = "Success"
                     /\ events_log[j].result = "CollisionLoss"
                ELSE /\ events_log[i].event_id \notin server.received_events
                     /\ events_log[j].event_id \notin server.received_events
                     /\ events_log[i].result = "CollisionLoss"
                     /\ events_log[j].result = "CollisionLoss"

\* C6: current_time never decreases, and after every step no pending event
\* lies before current_time
C6_TimeMonotone ==
    [][/\ current_time' >= current_time
       /\ \A i \in DOMAIN event_queue' : event_queue'[i].time >= current_time']_vars

\* C6 witness: time has advanced over several dispatches and an event is
\* pending at the current time
C6_Witness ==
    /\ current_time >= 3
    /\ Len(dispatched) >= 6
    /\ \E i \in DOMAIN event_queue : event_queue[i].time = current_time

\* the order on (time, type, id)
KeyLess(a, b) ==
    \/ a.time < b.time
    \/ a.time = b.time /\ a.type < b.type
    \/ a.time = b.time /\ a.type = b.type /\ a.id < b.id

\* C7: the event a step pops is minimal among the pending events under
\* (time, type, id); at equal time TX_END < TX_START < MOBILITY < RX_WINDOW
C7_MinimalDispatch ==
    [][dispatched' # dispatched =>
          \A i \in DOMAIN event_queue :
              ~KeyLess(event_queue[i], dispatched'[Len(dispatched')].event)]_vars

\* C7 witness: a TX_END was popped while a TX_START of the same time and of
\* a lower id was pending
C7_Witness ==
    /\ dispatched # <<>>
    /\ LastDispatched.event.type = TX_END
    /\ \E i \in PendingOf(TX_START) :
          /\ event_queue[i].time = LastDispatched.event.time
          /\ event_queue[i].id < LastDispatched.event.id

\* the pending events with the type and time of the event about to be popped
Rivals ==
    {j \in DOMAIN event_queue :
        /\ j # HeapTop(event_queue)
        /\ event_queue[j].type = Popped.type
        /\ event_queue[j].time = Popped.time}

\* C8 (as claimed): among the pending events of the same type and time, the
\* one pushed earlier is popped first, for every type
C8_PushOrder ==
    [][dispatched' # dispatched =>
          \A j \in Rivals : HeapTop(event_queue) < j]_vars

\* C8 (amended): among the pending events of the same type and time, the one
\* with the lower id is popped first; for TX_START, MOBILITY and RX_WINDOW
\* it is the one pushed earlier
C8_IdOrder ==
    [][dispatched' # dispatched =>
          \A j \in Rivals :
              /\ Popped.id < event_queue[j].id
              /\ Popped.type # TX_END => HeapTop(event_queue) < j]_vars

\* the position in the history of the handled TX_START with the id
StartOf(id) ==
    CHOOSE i \in DispatchedOf(TX_START) :
        dispatched[i].event.id = id /\ dispatched[i].handled

\* C8 witness: a TX_END was popped before a pending TX_END of the same time
\* that had been pushed earlier (its TX_START was handled earlier)
C8_Witness ==
    /\ dispatched # <<>>
    /\ LastDispatched.event.type = TX_END
    /\ LastDispatched.handled
    /\ \E j \in PendingOf(TX_END) :
          /\ event_queue[j].time = LastDispatched.event.time
          /\ event_queue[j].id > LastDispatched.event.id
          /\ StartOf(event_queue[j].id) < StartOf(LastDispatched.event.id)

\* C9: no two pending events have the same (time, type, id)
C9_UniqueKeys ==
    \A i, j \in DOMAIN event_queue :
        (i # j) => <<event_queue[i].time, event_queue[i].type, event_queue[i].id>>
                   # <<event_queue[j].time, event_queue[j].type, event_queue[j].id>>

\* C9 witness: two pending events have the same time and type, and a TX_END
\* is pending with the id of its TX_START
C9_Witness ==
    /\ \E i, j \in DOMAIN event_queue :
          /\ i # j
          /\ event_queue[i].time = event_queue[j].time
          /\ event_queue[i].type = event_queue[j].type
    /\ \E i \in PendingOf(TX_END) :
          \E k \in DispatchedOf(TX_START) :
              dispatched[k].event.id = event_queue[i].id

\* C10: a step that pops an event of a node whose alive is false changes no
\* counter, no gateway, nothing at the server, no log entry and no event id,
\* pushes nothing, and runs no handler
C10_DeadIgnored ==
    [][(dispatched' # dispatched /\ ~nodes[Popped.node_id].alive) =>
          /\ UNCHANGED <<packets_sent, packets_delivered, packets_lost_collision,
                         packets_lost_no_signal, retransmissions, events_log,
                         gateways, server, event_id_counter, duty>>
          /\ event_queue' = RemoveAt(event_queue, HeapTop(event_queue))
          /\ ~dispatched'[Len(dispatched')].handled
          /\ nodes'[Popped.node_id].packets_sent = nodes[Popped.node_id].packets_sent]_vars

\* C10 witness: a TX_START, a TX_END and an RX_WINDOW of a node were dropped
\* one after the other
C10_Witness ==
    \E i, j, k \in DOMAIN dispatched :
        /\ i < j /\ i < k
        /\ ~dispatched[i].handled /\ ~dispatched[j].handled /\ ~dispatched[k].handled
        /\ dispatched[i].event.node_id = dispatched[j].event.node_id
        /\ dispatched[i].event.node_id = dispatched[k].event.node_id
        /\ dispatched[j].event.type \in {TX_START, TX_END}
        /\ dispatched[k].event.type = RX_WINDOW
        /\ ~nodes[dispatched[i].event.node_id].alive

\* C11: once running is false no step changes anything: the queue, the time,
\* the counters, the log, the nodes, the gateways and the server stay as they
\* are and no event is popped
C11_StoppedFrozen ==
    [][~running =>
          UNCHANGED <<event_queue, current_time, event_id_counter, packets_sent,
                      packets_delivered, packets_lost_collision,
                      packets_lost_no_signal, retransmissions, events_log, running,
                      nodes, gateways, server, duty, dispatched>>]_vars

\* C11 witness: the simulation was stopped in the middle of a run, with events
\* pending that a running simulator would pop
C11_Witness ==
    /\ ~running
    /\ event_queue # <<>>
    /\ Len(dispatched) >= 2
    /\ Len(dispatched) < StepLimit
    /\ packets_sent >= 1

\* C12 (as claimed): for every max_steps = n >= 0, a call of run pops at most
\* n events
C12_AtMostN ==
    (runner.mode # "direct" /\ runner.max_steps # None) =>
        runner.step_count <= runner.max_steps

\* C12 (amended): for every max_steps = n >= 1 a call of run pops at most n
\* events, and it returns only with the queue empty, running false or n events
\* popped; max_steps = 0 is no limit, as None
C12_AtMostPositiveN ==
    runner.mode # "direct" =>
        /\ runner.step_count = Len(dispatched)
        /\ runner.max_steps \notin {None, 0} => runner.step_count <= runner.max_steps
        /\ runner.mode = "returned" =>
              \/ event_queue = <<>>
              \/ ~running
              \/ runner.max_steps \notin {None, 0} /\ runner.step_count = runner.max_steps

\* C12 witness: run(max_steps = 2) returned after two events, with events
\* pending and the simulator running
C12_Witness ==
    /\ runner.mode = "returned"
    /\ runner.max_steps = 2
    /\ Len(dispatched) = 2
    /\ event_queue # <<>>
    /\ running

TxEndsOf(n) ==
    {i \in DispatchedOf(TX_END) :
        dispatched[i].event.node_id = n /\ dispatched[i].handled}

\* position of the k-th handled TX_END of node n
NthTxEnd(n, k) ==
    CHOOSE i \in TxEndsOf(n) : Cardinality({j \in TxEndsOf(n) : j <= i}) = k

\* positions of the RX_WINDOW events of node n handled after position p
RxWindowsAfter(n, p) ==
    {i \in DispatchedOf(RX_WINDOW) :
        i > p /\ dispatched[i].event.node_id = n /\ dispatched[i].handled}

\* node 1 made at least 20 uplinks and the server received every one of them
TwentyUplinks ==
    /\ Cardinality(TxEndsOf(1)) >= SNR_HISTORY_LEN
    /\ server.packets_received = Cardinality(TxEndsOf(1))

\* C14 (as claimed): a node at SF12 on a good link has a lower SF once its 20
\* uplinks were received and the run is over, also when the 20th uplink
\* exhausts packets_to_send
C14_AdrEndToEnd ==
    (cfg.class_type = "A" /\ TwentyUplinks /\ event_queue = <<>>) =>
        nodes[1].sf < 12

\* C14 (amended): for a class A node at SF12 on a good link, the TX_END of the
\* 20th received uplink leaves a LinkADRReq with a higher data rate in the
\* gateway buffer; the node has a lower SF as soon as it has handled an
\* RX_WINDOW after that TX_END, and keeps SF12 with the frame still buffered
\* when that TX_END exhausted packets_to_send and pruned the RX_WINDOW events
C14_AdrUnlessPruned ==
    (cfg.class_type = "A" /\ TwentyUplinks) =>
        LET p == NthTxEnd(1, SNR_HISTORY_LEN)
            buf == gateways[1].downlink_buffer[1]
        IN  /\ RxWindowsAfter(1, p) = {} =>
                  /\ nodes[1].sf = 12
                  /\ Len(buf) = 1
                  /\ buf[1].kind = "adr"
                  /\ buf[1].dr > SfToDr(12)
                  /\ nodes[1].downlink_pending = 1
            /\ RxWindowsAfter(1, p) # {} => nodes[1].sf < 12
            /\ cfg.packets_to_send > 0 =>
                  /\ RxWindowsAfter(1, p) = {}
                  /\ \A i \in DOMAIN event_queue : event_queue[i].type = TX_END

\* C14 witness: the class A node has handled the RX_WINDOW that follows its
\* 20th uplink and runs at a lower SF
C14_Witness ==
    /\ cfg.class_type = "A"
    /\ TwentyUplinks
    /\ LastDispatched.event.type = RX_WINDOW
    /\ LastDispatched.event.node_id = 1
    /\ LastDispatched.handled
    /\ nodes[1].sf < 12
    /\ nodes[1].fcnt_down = 1
    /\ gateways[1].downlink_buffer[1] = <<>>

\* C15: a frame placed in the downlink scheduler does not outlive a receive
\* window of its node at or after its deliver_time: when the node has just
\* handled such an RX_WINDOW, the frame is no longer in the scheduler queue
C15_ScheduledDelivered ==
    dispatched # <<>> =>
        \A n \in Nodes : \A k \in DOMAIN server.scheduler[n] :
            ~ /\ LastDispatched.event.type = RX_WINDOW
              /\ LastDispatched.event.node_id = n
              /\ LastDispatched.handled
              /\ LastDispatched.event.time >= server.scheduler[n][k].time

\* the number of signals that capture marks as captured
Captured(winners) == Cardinality({i \in DOMAIN winners : winners[i]})

\* the RSSIs of a list without one of the strongest
Others(rssi_list, top) == {rssi_list[j] : j \in DOMAIN rssi_list \ {top}}

\* the lead of the strongest RSSI of a list of two or more over the second
Lead(rssi_list) ==
    LET top == CHOOSE i \in DOMAIN rssi_list :
                   \A j \in DOMAIN rssi_list : rssi_list[i] >= rssi_list[j]
        second == CHOOSE r \in Others(rssi_list, top) :
                      \A o \in Others(rssi_list, top) : r >= o
    IN  rssi_list[top] - second

\* the indices of the strongest RSSIs of a list
Strongest(rssi_list) ==
    {i \in DOMAIN rssi_list : \A j \in DOMAIN rssi_list : rssi_list[i] >= rssi_list[j]}

\* C16 (as claimed): capture marks at most one signal; of two or more, the
\* strongest is captured iff it exceeds the second by the threshold, and a tie
\* or a lead below the threshold captures none, for every threshold; a single
\* signal is captured; an empty list gives an empty result
C16_Capture ==
    (call.op = "capture" /\ call.returned) =>
        LET l == call.rssi_list
            win == call.winners
        IN  /\ Len(win) = Len(l)
            /\ Captured(win) <= 1
            /\ Len(l) = 1 => win = <<TRUE>>
            /\ Len(l) >= 2 =>
                  /\ \A i \in DOMAIN l : win[i] => i \in Strongest(l)
                  /\ Captured(win) = 1 <=>
                         (Lead(l) > 0 /\ Lead(l) >= call.capture_threshold_dB)
                  /\ (Lead(l) = 0 \/ Lead(l) < call.capture_threshold_dB) =>
                         Captured(win) = 0

\* C16 (amended): as claimed, except that a tie is a lead of 0: it captures
\* none when the threshold is positive, and with a threshold of 0 (or less) it
\* captures the first of the tied strongest signals of the list
C16_CaptureLead ==
    (call.op = "capture" /\ call.returned) =>
        LET l == call.rssi_list
            win == call.winners
        IN  /\ Len(win) = Len(l)
            /\ Captured(win) <= 1
            /\ Len(l) = 1 => win = <<TRUE>>
            /\ Len(l) >= 2 =>
                  /\ \A i \in DOMAIN l :
                         win[i] => /\ i \in Strongest(l)
                                   /\ \A j \in Strongest(l) : i <= j
                  /\ Captured(win) = 1 <=> Lead(l) >= call.capture_threshold_dB
                  /\ Lead(l) < call.capture_threshold_dB => Captured(win) = 0

\* C16 witness: capture returned for a list whose two strongest signals tie,
\* with a threshold of 0, and marked one of them
C16_Witness ==
    /\ call.op = "capture"
    /\ call.returned
    /\ Len(call.rssi_list) >= 2
    /\ Lead(call.rssi_list) = 0
    /\ call.capture_threshold_dB = 0
    /\ Captured(call.winners) = 1

\* the entries of a scheduler queue due at a time, for one gateway
ReadyFor(q, now, g) == {i \in DOMAIN q : q[i].time <= now /\ q[i].gw = g}

\* the entry of a queue that carries a frame
EntryOf(q, frame) == CHOOSE i \in DOMAIN q : q[i].frame = frame

\* C17: deliver_scheduled(node_id, now) removes from the node's scheduler queue
\* every frame with deliver_time <= now and appends it to its gateway's buffer,
\* in increasing deliver_time order; the frames with deliver_time > now stay in
\* the scheduler, and nothing else changes
C17_DeliverScheduled ==
    [][call'.op = "deliver_scheduled" =>
          LET n == call'.node_id
              now == call'.now
              q == server.scheduler[n]
          IN  /\ server'.scheduler[n] = SelectSeq(q, LAMBDA e : e.time > now)
              /\ \A m \in Nodes \ {n} : server'.scheduler[m] = server.scheduler[m]
              /\ nodes' = nodes
              /\ \A g \in DOMAIN gateways :
                    LET old == gateways[g].downlink_buffer[n]
                        new == gateways'[g].downlink_buffer[n]
                        added == SubSeq(new, Len(old) + 1, Len(new))
                    IN  /\ Len(new) = Len(old) + Cardinality(ReadyFor(q, now, g))
                        /\ SubSeq(new, 1, Len(old)) = old
                        /\ \A i \in ReadyFor(q, now, g) :
                               \E k \in DOMAIN added : added[k] = q[i].frame
                        /\ \A k1, k2 \in DOMAIN added :
                               k1 < k2 => q[EntryOf(q, added[k1])].time
                                              <= q[EntryOf(q, added[k2])].time
                        /\ \A m \in Nodes \ {n} :
                               gateways'[g].downlink_buffer[m]
                                   = gateways[g].downlink_buffer[m]]_vars

\* C17 witness: deliver_scheduled moved two frames of a class B node to a
\* gateway buffer and left a later one in the scheduler
C17_Witness ==
    /\ call.op = "deliver_scheduled"
    /\ cfg.class_type = "B"
    /\ \E g \in DOMAIN gateways :
          /\ Len(gateways[g].downlink_buffer[call.node_id]) = 2
          /\ gateways[g].downlink_buffer[call.node_id][1].fcnt
                 # gateways[g].downlink_buffer[call.node_id][2].fcnt
    /\ server.scheduler[call.node_id] # <<>>
    /\ \A k \in DOMAIN server.scheduler[call.node_id] :
          server.scheduler[call.node_id][k].time > call.now

\* C18: a TX_START that starts a transmission at time t with airtime d pushes
\* its TX_END at t + d and exactly two RX_WINDOW events for the node, at
\* rx1 = t + d + rx_delay and rx2 = rx1 + 1, each with a fresh event id, both
\* later than the TX_END
C18_TwoWindows ==
    [][(/\ dispatched' # dispatched
        /\ Popped.type = TX_START
        /\ dispatched'[Len(dispatched')].handled
        /\ nodes'[Popped.node_id].alive) =>
           LET n == Popped.node_id
               end_time == Popped.time + Airtime(nodes[n].sf)
               rx1 == end_time + nodes[n].rx_delay
               rx2 == rx1 + 1
           IN  /\ Range(event_queue') =
                     (Range(event_queue) \ {Popped})
                         \cup {Event(end_time, TX_END, Popped.id, n),
                               Event(rx1, RX_WINDOW, event_id_counter, n),
                               Event(rx2, RX_WINDOW, event_id_counter + 1, n)}
               /\ Len(event_queue') = Len(event_queue) + 2
               /\ event_id_counter' = event_id_counter + 2
               /\ \A e \in Range(event_queue) : e.id < event_id_counter
               /\ rx1 > end_time
               /\ rx2 > end_time]_vars

\* C18 witness: a TX_START has just started a transmission and the two receive
\* windows of the node are pending behind its TX_END
C18_Witness ==
    /\ dispatched # <<>>
    /\ LastDispatched.event.type = TX_START
    /\ LastDispatched.handled
    /\ nodes[LastDispatched.event.node_id].alive
    /\ nodes[LastDispatched.event.node_id].in_transmission
    /\ \E e1, e2 \in Range(event_queue) :
          /\ e1.type = RX_WINDOW /\ e2.type = RX_WINDOW
          /\ e1.node_id = LastDispatched.event.node_id
          /\ e2.node_id = LastDispatched.event.node_id
          /\ e1.id = event_id_counter - 2
          /\ e2.id = event_id_counter - 1
          /\ e2.time = e1.time + 1
          /\ e1.time > nodes[LastDispatched.event.node_id].current_end_time

\* C19: a TX_END that is processed increments exactly one of packets_delivered,
\* packets_lost_collision and packets_lost_no_signal, and sets the result of
\* the log entry of its transmission: Success iff the event id is in the
\* server's received_events, else CollisionLoss iff the transmission was heard
\* at its TX_START, else NoCoverage; gateway_id is set iff the result is Success
C19_Classified ==
    [][(/\ dispatched' # dispatched
        /\ Popped.type = TX_END
        /\ dispatched'[Len(dispatched')].handled) =>
           LET i == FirstLogEntry(events_log, Popped.id)
               delivered == Popped.id \in server'.received_events
               heard == events_log[i].heard
               result == IF delivered THEN "Success"
                         ELSE IF heard THEN "CollisionLoss" ELSE "NoCoverage"
               plus(b) == IF b THEN 1 ELSE 0
           IN  /\ LogEntries(events_log, Popped.id) # {}
               /\ events_log[i].result = "None"
               /\ packets_delivered' = packets_delivered + plus(delivered)
               /\ packets_lost_collision' =
                      packets_lost_collision + plus(~delivered /\ heard)
               /\ packets_lost_no_signal' =
                      packets_lost_no_signal + plus(~delivered /\ ~heard)
               /\ events_log'[i].result = result
               /\ (events_log'[i].gateway_id # None) <=> (result = "Success")
               /\ events_log'[i].gateway_id # None =>
                      events_log'[i].gateway_id \in DOMAIN gateways
               /\ \A j \in DOMAIN events_log : j # i => events_log'[j] = events_log[j]
               /\ Len(events_log') = Len(events_log)]_vars

\* C19 witness: TX_END events were processed with each of the three results
C19_Witness ==
    /\ \E i \in DOMAIN events_log :
          events_log[i].result = "Success" /\ events_log[i].gateway_id # None
    /\ \E i \in DOMAIN events_log :
          events_log[i].result = "CollisionLoss" /\ events_log[i].gateway_id = None
    /\ \E i \in DOMAIN events_log :
          events_log[i].result = "NoCoverage" /\ events_log[i].gateway_id = None
    /\ packets_delivered >= 1
    /\ packets_lost_collision >= 1
    /\ packets_lost_no_signal >= 1

\* C20: every in-flight reception record of a gateway belongs to a
\* transmission whose TX_START was dispatched and whose TX_END is still
\* pending; once the queue is drained no gateway holds a record
C20_InFlightScoped ==
    /\ \A g \in DOMAIN gateways : \A k \in DOMAIN gateways[g].active :
          /\ \E i \in DispatchedOf(TX_START) :
                /\ dispatched[i].handled
                /\ dispatched[i].event.id = gateways[g].active[k].event_id
          /\ \E e \in Range(event_queue) :
                e.type = TX_END /\ e.id = gateways[g].active[k].event_id
    /\ event_queue = <<>> => \A g \in DOMAIN gateways : gateways[g].active = <<>>

\* a step of the run handles a TX_END that finds the packet budget exhausted
\* and no retransmission left
BudgetTxEnd ==
    /\ dispatched' # dispatched
    /\ Popped.type = TX_END
    /\ dispatched'[Len(dispatched')].handled
    /\ nodes'[Popped.node_id].nb_trans_left <= 0
    /\ cfg.packets_to_send > 0
    /\ packets_sent >= cfg.packets_to_send

\* the events that were pending beside the one popped
OtherPending == {event_queue[i] : i \in DOMAIN event_queue \ {HeapTop(event_queue)}}

\* C21 (as claimed): a TX_END that finds the budget exhausted removes exactly
\* the pending TX_START events: every pending TX_END, RX_WINDOW and MOBILITY
\* event is still in the queue afterwards
C21_PrunesStartsOnly ==
    [][BudgetTxEnd =>
          Range(event_queue') = {e \in OtherPending : e.type # TX_START}]_vars

\* C21 (amended): a TX_END that finds the budget exhausted removes every
\* pending event that is not a TX_END, the RX_WINDOW and MOBILITY events
\* included, and keeps every pending TX_END
C21_KeepsTxEndsOnly ==
    [][BudgetTxEnd =>
          /\ Range(event_queue') = {e \in OtherPending : e.type = TX_END}
          /\ Len(event_queue') = Cardinality({e \in OtherPending : e.type = TX_END})]_vars

\* the ids of the events that were pushed and are neither pending nor dispatched
Removed ==
    {id \in 0..(event_id_counter - 1) :
        /\ \A e \in Range(event_queue) : e.id # id
        /\ \A i \in DOMAIN dispatched : dispatched[i].event.id # id}

\* C21 witness: the TX_END just handled found the budget exhausted, kept a
\* TX_END of the other node and removed the receive windows that were pending
C21_Witness ==
    /\ dispatched # <<>>
    /\ LastDispatched.event.type = TX_END
    /\ LastDispatched.handled
    /\ cfg.packets_to_send > 0
    /\ packets_sent >= cfg.packets_to_send
    /\ nodes[LastDispatched.event.node_id].nb_trans_left <= 0
    /\ Cardinality(Removed) >= 2
    /\ \E e \in Range(event_queue) :
          e.type = TX_END /\ e.node_id # LastDispatched.event.node_id

\* C22: with packets_to_send > 0, a call of run without max_steps ends, with
\* the event queue empty, whatever the class of the nodes, with mobility on or
\* off, with or without retransmissions
C22_RunDrains == <>(runner.mode = "returned" /\ event_queue = <<>>)

\* C22 witness: a run of class B nodes with mobility and retransmissions has
\* returned with the budget spent and the queue empty
C22_Witness ==
    /\ runner.mode = "returned"
    /\ event_queue = <<>>
    /\ cfg.class_type = "B"
    /\ cfg.mobility_enabled
    /\ cfg.nb_trans = 2
    /\ cfg.battery_capacity_j = None
    /\ packets_sent >= cfg.packets_to_send
    /\ Len(dispatched) < StepLimit

Min2(a, b) == IF a <= b THEN a ELSE b

\* C23: from (sf, p_idx) and nstep the server ADR step applies exactly
\* min(|nstep|, steps available) unit steps: for nstep > 0 it lowers sf down to
\* 7 and only then raises p_idx up to P_MAX_IDX; for nstep < 0 it lowers p_idx
\* down to 0 and only then raises sf up to 12; the result always satisfies
\* 7 <= sf <= 12 and 0 <= p_idx <= P_MAX_IDX
C23_AdrStep ==
    (call.op = "adr_step" /\ call.returned) =>
        LET sf == call.sf
            p == call.p_idx
            r == call.result
            up == Min2(call.nstep, (sf - 7) + (P_MAX_IDX - p))
            down == Min2(0 - call.nstep, p + (12 - sf))
        IN  /\ r.sf \in 7..12
            /\ r.p_idx \in 0..P_MAX_IDX
            /\ call.nstep > 0 =>
                  /\ r.sf = sf - Min2(up, sf - 7)
                  /\ r.p_idx = p + (up - Min2(up, sf - 7))
                  /\ (sf - r.sf) + (r.p_idx - p) = up
            /\ call.nstep < 0 =>
                  /\ r.p_idx = p - Min2(down, p)
                  /\ r.sf = sf + (down - Min2(down, p))
                  /\ (p - r.p_idx) + (r.sf - sf) = down
            /\ call.nstep = 0 => r.sf = sf /\ r.p_idx = p
            /\ r.power = TxPowerIndexToDbm(r.p_idx)

\* C23 witness: a step with more to do than there is room for: sf went down
\* to 7 and p_idx up to P_MAX_IDX with fewer unit steps than nstep
C23_Witness ==
    /\ call.op = "adr_step"
    /\ call.returned
    /\ call.sf > 7
    /\ call.p_idx < P_MAX_IDX
    /\ call.nstep > (call.sf - 7) + (P_MAX_IDX - call.p_idx)
    /\ call.result.sf = 7
    /\ call.result.p_idx = P_MAX_IDX

\* the history that a receive with an RSSI leaves before the ADR step
GrownHistory(h, rssi) ==
    LET h0 == Append(h, rssi - NoiseFloor)
    IN  IF Len(h0) > SNR_HISTORY_LEN THEN Tail(h0) ELSE h0

\* C24: the server ADR step is evaluated only on a non-duplicate receive that
\* leaves snr_history with 20 entries; it emits a LinkADRReq carrying the new
\* (sf, power, chmask, nb_trans) iff the computed (sf, power) differs from the
\* node's (sf, tx_power), and snr_history is cleared iff the downlink is emitted
C24_AdrOnFullHistory ==
    [][call'.op = "receive" =>
          LET n == call'.node_id
              node == nodes[n]
              duplicate == call'.event_id \in server.received_events
              counted == ~duplicate /\ server.adr_enabled /\ call'.rssi # None
              h1 == GrownHistory(node.snr_history, call'.rssi)
              margin2 == 2 * SetMax(Range(h1)) - RequiredSnr2(node.sf, 0 - 40)
                             - 2 * MARGIN_DB
              r == AdrLoop(node.sf, DbmToTxPowerIndex(node.tx_power), node.tx_power,
                           RoundHalfEven(margin2, 6))
              differs == r.sf # node.sf \/ r.power # node.tx_power
              old == gateways[1].downlink_buffer[n]
              new == gateways'[1].downlink_buffer[n]
              emitted == new # old
          IN  /\ duplicate => nodes' = nodes /\ gateways' = gateways /\ server' = server
              /\ ~counted => ~emitted /\ nodes'[n].snr_history = node.snr_history
              /\ counted =>
                    /\ emitted <=> (Len(h1) = SNR_HISTORY_LEN /\ differs)
                    /\ emitted =>
                          /\ new = Append(old, [kind |-> "adr", fcnt |-> node.fcnt_down,
                                                dr |-> SfToDr(r.sf),
                                                p_idx |-> DbmToTxPowerIndex(r.power),
                                                chmask |-> node.chmask,
                                                nb_trans |-> node.nb_trans])
                          /\ nodes'[n].snr_history = <<>>
                    /\ ~emitted => nodes'[n].snr_history = h1
              /\ nodes'[n].sf = node.sf
              /\ nodes'[n].tx_power = node.tx_power
              /\ server'.scheduler = server.scheduler]_vars

\* C24 witness: after receives without RSSI and duplicates, a receive filled
\* the history, a LinkADRReq was emitted and the history was cleared, twice
C24_Witness ==
    /\ call.op = "receive"
    /\ call.rssi # None
    /\ server.adr_enabled
    /\ nodes[1].snr_history = <<>>
    /\ server.packets_received > 2 * SNR_HISTORY_LEN
    /\ Len(gateways[1].downlink_buffer[1]) = 2
    /\ gateways[1].downlink_buffer[1][2].kind = "adr"

\* C25: send_downlink stores the frame it builds in exactly one place: the
\* chosen gateway's buffer for class A or C without at_time, the scheduler at
\* at_time for class A (or C) with at_time, the scheduler at a ping slot for
\* class B with or without at_time; with no gateway available it changes
\* nothing, fcnt_down and downlink_pending included
C25_OnePlace ==
    \A w \in {World} : \A n \in Nodes, at \in SendTimes, g \in SendGateways :
        LET w2 == SendDownlink(w, n, "data", NoAdr, at, g)
            gw == IF g # None THEN g ELSE IF gateways # <<>> THEN 1 ELSE None
            class == nodes[n].class_type
            frame == [kind |-> "data", fcnt |-> nodes[n].fcnt_down, dr |-> None,
                      p_idx |-> None, chmask |-> None, nb_trans |-> None]
            buffered == class \in {"A", "C"} /\ at = None
            requested == IF at = None THEN 0 ELSE at
            slot == w2.server.scheduler[n][Len(w2.server.scheduler[n])].time
        IN  IF gw = None THEN w2 = w
            ELSE /\ w2.nodes = [nodes EXCEPT ![n].fcnt_down = @ + 1,
                                             ![n].downlink_pending = @ + 1]
                 /\ buffered =>
                       /\ w2.gateways =
                              [gateways EXCEPT ![gw].downlink_buffer[n] = Append(@, frame)]
                       /\ w2.server = server
                 /\ ~buffered =>
                       /\ w2.gateways = gateways
                       /\ w2.server =
                              [server EXCEPT !.scheduler[n] =
                                                 Append(@, [time |-> slot,
                                                            seq |-> server.scheduler_seq,
                                                            frame |-> frame, gw |-> gw]),
                                             !.scheduler_seq = @ + 1]
                       /\ class # "B" => slot = at
                       /\ class = "B" =>
                             /\ slot >= requested
                             /\ slot >= PING_SLOT_OFFSET
                             /\ (slot - PING_SLOT_OFFSET) % PING_SLOT_INTERVAL = 0
                             /\ slot - PING_SLOT_INTERVAL < requested
                                    \/ slot = PING_SLOT_OFFSET

\* C25 witness: for a class A node, a send without at_time went to the buffer
\* of the second gateway and a send with at_time went to the scheduler
C25_Witness ==
    /\ call.op = "send_downlink"
    /\ cfg.class_type = "A"
    /\ DOMAIN gateways = {1, 2}
    /\ Len(gateways[2].downlink_buffer[1]) = 1
    /\ gateways[1].downlink_buffer[1] = <<>>
    /\ Len(server.scheduler[1]) = 1
    /\ nodes[1].fcnt_down = 2
    /\ nodes[1].downlink_pending = 2

\* C26: for a class C node, every frame that the simulator's network server
\* scheduled with an at_time has an RX_WINDOW event of that node at at_time in
\* the simulator's event queue
C26_WindowAtSchedule ==
    \A n \in Nodes : \A k \in DOMAIN server.scheduler[n] :
        nodes[n].class_type = "C" =>
            \E e \in Range(event_queue) :
                /\ e.type = RX_WINDOW
                /\ e.node_id = n
                /\ e.time = server.scheduler[n][k].time

\* step() handles an RX_WINDOW event
WindowStep ==
    /\ dispatched' # dispatched
    /\ Popped.type = RX_WINDOW
    /\ dispatched'[Len(dispatched')].handled

\* the gateways that hold a downlink for the node
Holding(gws, n) == {g \in DOMAIN gws : gws[g].downlink_buffer[n] # <<>>}

\* C27: an RX_WINDOW dispatch removes at most one frame from all the gateway
\* buffers together: the head frame of the first gateway, in order, that
\* holds one for the node; the frame is handed to handle_downlink iff the
\* SNR of the link to that gateway reaches the threshold of the node's SF;
\* every other buffer is unchanged
C27_OneFramePerWindow ==
    [][WindowStep =>
          LET n == Popped.node_id
              G == Holding(gateways, n)
              g == CHOOSE g \in G : \A h \in G : g <= h
              snr == ComputeRssi(nodes[n].tx_power, DistanceTo(nodes[n], g)).snr
          IN  /\ \A h \in DOMAIN gateways : \A m \in Nodes \ {n} :
                    gateways'[h].downlink_buffer[m] = gateways[h].downlink_buffer[m]
              /\ IF G = {} \/ ~nodes'[n].alive
                 THEN /\ gateways' = gateways
                      /\ nodes'[n].downlink_pending = nodes[n].downlink_pending
                 ELSE /\ gateways' = [gateways EXCEPT ![g].downlink_buffer[n] = Tail(@)]
                      /\ IF snr >= SnrThreshold(nodes[n].sf)
                         THEN nodes'[n].downlink_pending =
                                  Max2(0, nodes[n].downlink_pending - 1)
                         ELSE nodes'[n].downlink_pending = nodes[n].downlink_pending]_vars

\* C27 witness: both gateways held frames for the first node, which is in
\* range of the second gateway only; one window dropped the head frame of the
\* first gateway, the next one handed over the frame of the second gateway
C27_Witness ==
    /\ cfg.x[1] = 14
    /\ Cardinality({i \in DispatchedOf(RX_WINDOW) :
                       dispatched[i].handled /\ dispatched[i].event.node_id = 1}) >= 2
    /\ LastDispatched.event.type = RX_WINDOW
    /\ nodes[1].fcnt_down = 3
    /\ nodes[1].downlink_pending = 2
    /\ gateways[1].downlink_buffer[1] = <<>>
    /\ Len(gateways[2].downlink_buffer[1]) = 1

\* C28 (as claimed): after an RX_WINDOW of a class C node at time t, a new
\* RX_WINDOW of the node at t + 1 is pushed iff some gateway buffer still
\* holds a downlink for the node
C28_ClassCPolls ==
    [][WindowStep /\ nodes[Popped.node_id].class_type = "C" =>
          LET n == Popped.node_id
              pushed == {e \in Range(event_queue') : e.id >= event_id_counter}
          IN  IF Holding(gateways', n) # {}
              THEN \E e \in pushed :
                      e.type = RX_WINDOW /\ e.node_id = n /\ e.time = Popped.time + 1
              ELSE pushed = {}]_vars

\* step() handles a MOBILITY event of a simulator with mobility
MobilityStepTaken ==
    /\ dispatched' # dispatched
    /\ Popped.type = MOBILITY
    /\ dispatched'[Len(dispatched')].handled
    /\ cfg.mobility_enabled

\* the events a step pushed
Pushed == {e \in Range(event_queue') : e.id >= event_id_counter}

Moves(n) ==
    {i \in DOMAIN events_log :
        events_log[i].result = "Mobility" /\ events_log[i].node_id = n}

TxEndStepTaken ==
    /\ dispatched' # dispatched
    /\ Popped.type = TX_END
    /\ dispatched'[Len(dispatched')].handled

\* node.history once the TX_END has appended its entry, before the ADR block
HistoryAtAdr ==
    LET n == Popped.node_id
        delivered == Popped.id \in server'.received_events
        h == Append(nodes[n].history,
                    [snr |-> IF delivered THEN nodes[n].last_snr ELSE None,
                     rssi |-> IF delivered THEN nodes[n].last_rssi ELSE None,
                     delivered |-> delivered])
    IN  IF Len(h) > HISTORY_LEN THEN Tail(h) ELSE h

\* per > PER_THRESHOLD or margin < 0, on that history and the node's SF
AdrTrigger ==
    LET h == HistoryAtAdr
        failures == Cardinality({k \in DOMAIN h : ~h[k].delivered})
        snrs == {h[k].snr : k \in {j \in DOMAIN h : h[j].snr # None}}
    IN  \/ 10 * failures > Len(h)
        \/ /\ snrs # {}
           /\ 2 * SetMax(snrs) - RequiredSnr2(nodes[Popped.node_id].sf, 0)
                  - 2 * MARGIN_DB < 0

\* C30: at a TX_END with adr_node on, when the recent PER exceeds 0.1 or the
\* margin is negative and adr_server is on, the SF grows by exactly 1 if it
\* is below 12, otherwise tx_power grows by 3 dB capped at 20 dBm, and
\* node.history is cleared; with adr_server off or without the trigger, SF
\* and tx_power keep their values and the history keeps its entries
C30_NodeAdr ==
    [][TxEndStepTaken /\ cfg.adr_node =>
          LET n == Popped.node_id
              old == nodes[n]
              new == nodes'[n]
          IN  IF AdrTrigger /\ cfg.adr_server
              THEN /\ new.history = <<>>
                   /\ IF old.sf < 12
                      THEN new.sf = old.sf + 1 /\ new.tx_power = old.tx_power
                      ELSE /\ new.sf = old.sf
                           /\ new.tx_power = Min2(20, old.tx_power + 3)
              ELSE /\ new.sf = old.sf
                   /\ new.tx_power = old.tx_power
                   /\ new.history = HistoryAtAdr]_vars

\* C30 witness: with adr_server on, the first node, whose link has a negative
\* margin, raised its SF, and the second node, out of range at SF 12, raised
\* its power to the cap of 20 dBm; the TX_END just handled cleared the history
C30_Witness ==
    /\ cfg.adr_node
    /\ cfg.adr_server
    /\ dispatched # <<>>
    /\ LastDispatched.event.type = TX_END
    /\ LastDispatched.handled
    /\ nodes[LastDispatched.event.node_id].history = <<>>
    /\ nodes[1].sf > cfg.sf[1]
    /\ nodes[2].sf = 12
    /\ nodes[2].tx_power = 20

\* the values of the TX power index table
TablePowers == {TxPowerIndexToDbm(i) : i \in 0..P_MAX_IDX}

\* the (sf, power) pair the ADR step of receive computes for a node when the
\* gateway reports its uplink
ComputedPair(node) ==
    LET rssi == ComputeRssi(node.tx_power, DistanceTo(node, 1)).rssi
        h1 == GrownHistory(node.snr_history, rssi)
        margin2 == 2 * SetMax(Range(h1)) - RequiredSnr2(node.sf, 0 - 40) - 2 * MARGIN_DB
    IN  AdrLoop(node.sf, DbmToTxPowerIndex(node.tx_power), node.tx_power,
                RoundHalfEven(margin2, 6))

\* C31 (as claimed): every node's SF stays in 7..12 and its tx_power at most
\* 20 dBm, and every (sf, power) pair the server puts in a LinkADRReq has its
\* sf in 7..12 and its power in the TX power index table
C31_RangesKept ==
    [][\A n \in Nodes :
          /\ nodes'[n].sf \in 7..12
          /\ nodes'[n].tx_power <= 20
          /\ nodes'[n].fcnt_down # nodes[n].fcnt_down =>
                /\ ComputedPair(nodes[n]).sf \in 7..12
                /\ ComputedPair(nodes[n]).power \in TablePowers]_vars

\* the TX_START events of a node that step() handled
StartsOf(n) ==
    {i \in DispatchedOf(TX_START) :
        dispatched[i].handled /\ dispatched[i].event.node_id = n}

\* the packet budget is exhausted
BudgetExhausted == cfg.packets_to_send > 0 /\ packets_sent >= cfg.packets_to_send

\* what a handled TX_END does for the cycle of its node: a retransmission is
\* requested 1 s later and counted while transmissions of the cycle are left,
\* the next packet or the budget comes only after the last one
CycleStep ==
    TxEndStepTaken =>
        LET n == Popped.node_id
            retry == [time |-> Popped.time + 1, type |-> TX_START,
                      id |-> event_id_counter, node_id |-> n]
        IN  IF nodes[n].nb_trans_left > 0
            THEN /\ retransmissions' = retransmissions + 1
                 /\ Pushed = {retry}
            ELSE /\ retransmissions' = retransmissions
                 /\ IF BudgetExhausted
                    THEN Pushed = {}
                    ELSE \E e \in Pushed :
                            /\ Pushed = {e}
                            /\ e.type = TX_START
                            /\ e.node_id = n
                            /\ e.time > Popped.time

\* the transmissions left in the cycle count down from nb_trans
CycleCount ==
    \A n \in Nodes :
        LET N == Max2(1, cfg.nb_trans)
        IN  nodes'[n].nb_trans_left = (N - (Cardinality(StartsOf(n)') % N)) % N

SlidBy(old, new, entry) ==
    \/ new = <<>>
    \/ /\ Len(new) = Min2(20, Len(old) + 1)
       /\ new[Len(new)] = entry
       /\ \A k \in 1..(Len(new) - 1) : new[k] = old[k + Len(old) + 1 - Len(new)]

\* C33: node.history and node.snr_history never hold more than 20 entries;
\* each handled TX_END appends to the history of its node, each counted
\* uplink to its snr_history, and an append to a full history drops its
\* oldest entry
C33_HistoriesCapped ==
    [][\A n \in Nodes :
          /\ Len(nodes'[n].history) <= 20
          /\ Len(nodes'[n].snr_history) <= 20
          /\ IF TxEndStepTaken /\ Popped.node_id = n
             THEN LET delivered == Popped.id \in server'.received_events
                  IN  /\ SlidBy(nodes[n].history, nodes'[n].history,
                                [snr |-> IF delivered THEN nodes[n].last_snr ELSE None,
                                 rssi |-> IF delivered THEN nodes[n].last_rssi ELSE None,
                                 delivered |-> delivered])
                      /\ IF server.adr_enabled /\ delivered
                         THEN SlidBy(nodes[n].snr_history, nodes'[n].snr_history,
                                     nodes[n].last_snr)
                         ELSE nodes'[n].snr_history = nodes[n].snr_history
             ELSE /\ nodes'[n].history = nodes[n].history
                  /\ nodes'[n].snr_history = nodes[n].snr_history]_vars

\* C33 witness: the first node has had a LinkADRReq, after which its SNR
\* changed: its full history has dropped old entries and holds entries of
\* both kinds; the second node, out of range, has a full history of losses
C33_Witness ==
    /\ nodes[1].fcnt_down = 1
    /\ nodes[1].packets_sent > 22
    /\ Len(nodes[1].history) = 20
    /\ nodes[1].history[1].snr # nodes[1].history[20].snr
    /\ nodes[1].snr_history # <<>>
    /\ Len(nodes[2].history) = 20
    /\ nodes[2].packets_sent > 22

\* the fcnt values of the frames held for a node, in the gateway buffers and
\* in the scheduler, as a bag
HeldFcnts(gws, srv, n) ==
    LET buffered(g) == [k \in DOMAIN gws[g].downlink_buffer[n] |->
                           gws[g].downlink_buffer[n][k].fcnt]
        scheduled == [k \in DOMAIN srv.scheduler[n] |-> srv.scheduler[n][k].frame.fcnt]
        RECURSIVE All(_)
        All(g) == IF g \notin DOMAIN gws THEN scheduled ELSE buffered(g) \o All(g + 1)
    IN  All(1)

\* C34: fcnt_down never decreases; a send_downlink that finds a gateway
\* increases it by exactly 1 and stores one frame carrying the value it had,
\* so that the frames held for a node carry pairwise distinct fcnt values
\* below fcnt_down, increasing along each gateway buffer
C34_FcntDownGrows ==
    [][\A n \in Nodes :
          LET old == HeldFcnts(gateways, server, n)
              new == HeldFcnts(gateways', server', n)
              sent == call'.op = "send_downlink" /\ call'.node_id = n
                          /\ gateways # <<>>
          IN  /\ nodes'[n].fcnt_down >= nodes[n].fcnt_down
              /\ IF sent
                 THEN /\ nodes'[n].fcnt_down = nodes[n].fcnt_down + 1
                      /\ Len(new) = Len(old) + 1
                      /\ Range(new) = Range(old) \cup {nodes[n].fcnt_down}
                 ELSE /\ nodes'[n].fcnt_down = nodes[n].fcnt_down
                      /\ new = old
              /\ Cardinality(Range(new)) = Len(new)
              /\ \A f \in Range(new) : f < nodes'[n].fcnt_down
              /\ \A g \in DOMAIN gateways' :
                    \A j, k \in DOMAIN gateways'[g].downlink_buffer[n] :
                       j < k => gateways'[g].downlink_buffer[n][j].fcnt
                                   < gateways'[g].downlink_buffer[n][k].fcnt]_vars

\* C34 witness: three frames were sent to the first node, one to each gateway
\* buffer and one to the scheduler, with fcnt 0, 1 and 2
C34_Witness ==
    /\ call.op = "send_downlink"
    /\ DOMAIN gateways = {1, 2}
    /\ nodes[1].fcnt_down = 3
    /\ Len(gateways[1].downlink_buffer[1]) = 1
    /\ Len(gateways[2].downlink_buffer[1]) = 1
    /\ Len(server.scheduler[1]) = 1
    /\ {gateways[1].downlink_buffer[1][1].fcnt, gateways[2].downlink_buffer[1][1].fcnt,
        server.scheduler[1][1].frame.fcnt} = {0, 1, 2}

\* C35 (as claimed): the state of a node is "tx" during the whole interval in
\* which in_transmission is true: no RX_WINDOW of the node moves it to
\* "sleep" between its TX_START and its TX_END
C35_TxWhileTransmitting ==
    \A n \in Nodes :
        nodes[n].alive /\ nodes[n].in_transmission => nodes[n].state = "tx"

\* step() handles a TX_START event
TxStartStepTaken ==
    /\ dispatched' # dispatched
    /\ Popped.type = TX_START
    /\ dispatched'[Len(dispatched')].handled

\* C36 (as claimed): duty-cycle enforcement is off iff the factor is None:
\* with any other factor, 0 included, each handled TX_START is recorded by
\* update_after_tx and each TX_START pushed starts no earlier than enforce
\* allows; with None the manager's records never change
C36_EnforcedUnlessNone ==
    [][IF cfg.duty_cycle = None
       THEN duty' = duty
       ELSE /\ TxStartStepTaken =>
                  /\ duty'[Popped.node_id] # duty[Popped.node_id]
                  /\ duty'[Popped.node_id] >= Popped.time + Airtime(nodes[Popped.node_id].sf)
            /\ \A e \in Pushed : e.type = TX_START => e.time >= duty'[e.node_id]]_vars

\* the pending events of a type of a node
PendingFor(type, n) == {i \in PendingOf(type) : event_queue[i].node_id = n}

\* C37 (as claimed): each node has at most one TX_START or TX_END pending and
\* is in transmission exactly when a TX_END of it is pending
C37_OneTransmission ==
    \A n \in Nodes :
        /\ Cardinality(PendingFor(TX_START, n)) + Cardinality(PendingFor(TX_END, n)) <= 1
        /\ nodes[n].in_transmission <=> PendingFor(TX_END, n) # {}

\* the results a TX_END writes
TxResults == {"Success", "CollisionLoss", "NoCoverage"}

\* C38: a handled TX_END finds exactly one log entry with its event id, whose
\* result is unset before and set after; a result once set is never changed;
\* the entries of the log have pairwise distinct event ids
C38_LogIntegrity ==
    [][/\ TxEndStepTaken =>
             LET E == LogEntries(events_log, Popped.id)
             IN  /\ Cardinality(E) = 1
                 /\ \A i \in E : /\ events_log[i].result = "None"
                                 /\ events_log'[i].result \in TxResults
                                 /\ events_log[i].node_id = Popped.node_id
       /\ Len(events_log') >= Len(events_log)
       /\ \A i \in DOMAIN events_log :
             \/ events_log'[i] = events_log[i]
             \/ /\ TxEndStepTaken
                /\ events_log[i].event_id = Popped.id
                /\ events_log[i].result = "None"
       /\ \A i, j \in DOMAIN events_log' :
             i # j => events_log'[i].event_id # events_log'[j].event_id]_vars

\* C38 witness: the log holds a delivered transmission, a move of a node and a
\* transmission in flight, and the TX_END just handled set a result
C38_Witness ==
    /\ dispatched # <<>>
    /\ LastDispatched.event.type = TX_END
    /\ LastDispatched.handled
    /\ \E i \in DOMAIN events_log :
          /\ events_log[i].event_id = LastDispatched.event.id
          /\ events_log[i].result \in TxResults
          /\ i < Len(events_log)
    /\ \E i \in DOMAIN events_log : events_log[i].result = "Mobility"
    /\ \E i \in DOMAIN events_log : events_log[i].result = "None"
    /\ Cardinality({i \in DOMAIN events_log : events_log[i].result = "Success"}) >= 2

\* C39 (as claimed): for a class B node the number of pending RX_WINDOW events
\* never exceeds 3, the periodic window and the two windows of the latest
\* uplink
C39_ClassBWindowsBounded ==
    \A n \in Nodes :
        nodes[n].class_type = "B" => Cardinality(PendingFor(RX_WINDOW, n)) <= 3

\* C40 (as claimed): a node's downlink_pending is the number of frames held
\* for it in the gateway buffers and in the scheduler
C40_PendingIsHeld ==
    \A n \in Nodes :
        nodes[n].downlink_pending = Len(HeldFcnts(gateways, server, n))

====
